---- MODULE Spec2Model ----
(***************************************************************************)
(* A model of the GraphRAG core of @ui8kit/brain: the embedding batcher    *)
(* (infrastructure/llm/openai), the Qdrant vector store manager            *)
(* (infrastructure/vector/qdrant) and the Neo4j graph store manager        *)
(* (infrastructure/graph/neo4j).                                           *)
(*                                                                         *)
(* Array positions are 1-based here; the source's index i is i+1.          *)
(***************************************************************************)
EXTENDS Integers, Sequences, FiniteSets, TLC

VARIABLES
    \* ---- embedding batcher: one createEmbeddings call at a time
    embPc,        \* "idle" | "loop" | "await" | "done" | "failed"
    embTexts,     \* texts: the argument of the running / last call
    embTokens,    \* the tokenizer's count for every text of the universe
    embBatches,   \* batches built by createBatchesByTokenLimit
    embIdx,       \* position of the for-of loop over batches
    embVectors,   \* the vectors array being filled (holes are Undefined)
    embInFlight,  \* embedding requests sent and not yet answered
    embLog,       \* inputs of every request sent by the call, in order
    embResult,    \* the returned array, once embPc = "done"
    \* ---- vector store manager
    colExists, colDim, colPoints,   \* the collection held by the store
    vPc, vOp, vArg, vItems, vExisting, vMissing, vOut, vReqs, vErr,
    vPrev, vSnap, vActive,
    \* ---- graph store manager
    gNodes, gEdges, gConstraint, gPc, gTx, gArgs, gLast, gSnap,
    \* ---- application layer: one ingest(request) call at a time
    iPc,          \* "idle" | "await" | "done" | "failed"
    iReq,         \* the request of the running / last call
    iIdx,         \* position in the sub-calls the request leads to
    iLog,         \* the sub-calls made so far, each sending requests of one kind
    iOut,         \* "none" | "ok" | "validation" | "error"
    \* ---- one application of a function that has no state of its own
    fnPc,         \* "idle" | "ready" | "await" | "done" | "failed"
    fnName,       \* the function applied
    fnIn,         \* its arguments
    fnOut,        \* its result, once fnPc = "done"
    fnReqs,       \* the requests it has sent to its collaborators, in order
    fnPrev,       \* the call that was completed just before this one
    \* ---- sessions of the graph driver, per caller of a graph operation
    sPc,          \* "idle" | "running" | "closing" | "done"
    sSess,        \* the session the operation holds (0: none)
    sOpened,      \* sessions the running operation has opened
    sLeft,        \* awaited statements still to run before the finally block
    sOut,         \* "none" | "ok" | "error"
    sOpen,        \* sessions opened and not closed
    sNext,        \* the next session the driver hands out
    sUsers,       \* per session, the number of operations that were given it
    sPeak,        \* the largest number of sessions open at one time so far
    promptRegistry, \* the prompt registry: its entries in insertion order
    regOp,        \* the registry operation made last, with its result
    regLatest,    \* per kind, the prompt of the latest setPrompt no deletePrompt followed
    ragSeen       \* regLatest["rag"] when graphRAGRun was called last

embVars == <<embPc, embTexts, embTokens, embBatches, embIdx, embVectors,
             embInFlight, embLog, embResult>>
vecVars == <<colExists, colDim, colPoints, vPc, vOp, vArg, vItems, vExisting, vErr,
             vMissing, vOut, vReqs, vPrev, vSnap, vActive>>
graphVars == <<gNodes, gEdges, gConstraint, gPc, gTx, gArgs, gLast, gSnap>>
ingVars == <<iPc, iReq, iIdx, iLog, iOut>>
fnVars == <<fnPc, fnName, fnIn, fnOut, fnReqs, fnPrev>>
sessVars == <<sPc, sSess, sOpened, sLeft, sOut, sOpen, sNext, sUsers, sPeak>>
regVars == <<promptRegistry, regOp, regLatest, ragSeen>>
appVars == <<ingVars, fnVars, sessVars, regVars>>
vars == <<embVars, vecVars, graphVars, appVars>>

\* A hole of a sparse array (new Array(n)) or a value not produced yet.
Undefined == <<>>

SeqsUpTo(S, n) == UNION {[1..k -> S] : k \in 0..n}

RECURSIVE SumSeq(_)
SumSeq(s) == IF Len(s) = 0 THEN 0 ELSE s[1] + SumSeq(Tail(s))

(***************************************************************************)
(* Embedding batcher                                                       *)
(***************************************************************************)
MAX_TOKENS_PER_BATCH == 7000

MaxTexts == 3

Texts == {"t1", "t2", "t3"}

\* Token counts a tokenizer can report, on both sides of the budget.
TokenVals == {0, 3000, 4000, 7000, 7001}

\* The embedding service's vector for one text.
EmbeddingOf(t) ==
    CASE t = "t1" -> <<1, 0>>
      [] t = "t2" -> <<0, 1>>
      [] OTHER    -> <<1, 1>>

\* buildTokenMap: { index, text, tokens } per text, in input order.
buildTokenMap(texts, tokens) ==
    [i \in 1..Len(texts) |-> [index |-> i, text |-> texts[i], tokens |-> tokens[texts[i]]]]

EmptyPacking == [batches |-> <<>>, currentTokens |-> 0,
                 currentIndices |-> <<>>, currentInputs |-> <<>>]

\* A flush that closes the batch but goes on counting its tokens.
pushCurrentKeepingCount(st) ==
    IF Len(st.currentIndices) > 0
    THEN [batches |-> Append(st.batches,
                             [indices |-> st.currentIndices, inputs |-> st.currentInputs]),
          currentTokens |-> st.currentTokens, currentIndices |-> <<>>, currentInputs |-> <<>>]
    ELSE st

\* pushCurrent: flush the current batch, if it holds anything.
pushCurrent(st) ==
    IF Len(st.currentIndices) > 0
    THEN [batches |-> Append(st.batches,
                             [indices |-> st.currentIndices, inputs |-> st.currentInputs]),
          currentTokens |-> 0, currentIndices |-> <<>>, currentInputs |-> <<>>]
    ELSE st

\* The flush test of the packing loop, with a cumulative count that is only
\* compared after the batch has already overflowed.
flushNeededLate(currentTokens, itemTokens, maxTokens) == currentTokens > maxTokens

\* The flush test of the packing loop: would this item overflow the batch?
flushNeeded(currentTokens, itemTokens, maxTokens) ==
    currentTokens + itemTokens > maxTokens

\* One iteration of the for-of loop of createBatchesByTokenLimit.
packItem(st, item, maxTokens) ==
    IF item.tokens > maxTokens
    THEN LET p == pushCurrent(st)
         IN [p EXCEPT !.batches = Append(p.batches,
                 [indices |-> <<item.index>>, inputs |-> <<item.text>>])]
    ELSE LET p == IF flushNeeded(st.currentTokens, item.tokens, maxTokens)
                  THEN pushCurrent(st) ELSE st
         IN [p EXCEPT !.currentIndices = Append(p.currentIndices, item.index),
                      !.currentInputs = Append(p.currentInputs, item.text),
                      !.currentTokens = p.currentTokens + item.tokens]

RECURSIVE packLoop(_, _, _, _)
packLoop(st, items, k, maxTokens) ==
    IF k > Len(items) THEN st
    ELSE packLoop(packItem(st, items[k], maxTokens), items, k + 1, maxTokens)

createBatchesByTokenLimit(items, maxTokens) ==
    pushCurrent(packLoop(EmptyPacking, items, 1, maxTokens)).batches

\* The embedding service: one vector per input, in request order.
embeddingsCreate(inputs) ==
    [i \in 1..Len(inputs) |-> [embedding |-> EmbeddingOf(inputs[i])]]

\* Which slot of the result array the i-th vector of a response goes to,
\* ignoring the batch's index list.
originalIndexByPosition(batch, i) == i

\* Which slot of the result array the i-th vector of a response goes to.
originalIndex(batch, i) == batch.indices[i]

RECURSIVE storeResponse(_, _, _, _)
\* The inner loop over res.data: vectors[originalIndex] = res.data[i].embedding.
storeResponse(vectors, batch, data, i) ==
    IF i > Len(data) THEN vectors
    ELSE storeResponse([vectors EXCEPT ![originalIndex(batch, i)] = data[i].embedding],
                       batch, data, i + 1)

EmbInit ==
    /\ embPc = "idle"
    /\ embTexts = <<>>
    /\ embTokens = [t \in Texts |-> 0]
    /\ embBatches = <<>>
    /\ embIdx = 1
    /\ embVectors = <<>>
    /\ embInFlight = 0
    /\ embLog = <<>>
    /\ embResult = Undefined

\* createEmbeddings(texts) up to the first await of the request loop.
EmbCall(texts, tokens) ==
    /\ UNCHANGED <<vecVars, graphVars, appVars>>
    /\ embPc = "idle"
    /\ embTexts' = texts
    /\ embTokens' = tokens
    /\ embLog' = <<>>
    /\ embIdx' = 1
    /\ embInFlight' = 0
    /\ IF Len(texts) = 0
       THEN /\ embPc' = "done"
            /\ embResult' = <<>>
            /\ embBatches' = <<>>
            /\ embVectors' = <<>>
       ELSE /\ embPc' = "loop"
            /\ embResult' = Undefined
            /\ embBatches' = createBatchesByTokenLimit(buildTokenMap(texts, tokens),
                                                       MAX_TOKENS_PER_BATCH)
            /\ embVectors' = [i \in 1..Len(texts) |-> Undefined]

\* The requests one pass of the loop would issue were the batches sent
\* together (Promise.all over the remaining batches).
requestsIssuedAtOnce(batches, idx) == [k \in 1..(Len(batches) - idx + 1) |-> batches[idx + k - 1].inputs]

\* The requests one pass of the for-of loop issues before it awaits: one,
\* for the batch at hand.
requestsIssued(batches, idx) == <<batches[idx].inputs>>

\* embeddingClient.embeddings.create(...) is sent for the next batch.
EmbRequest ==
    /\ UNCHANGED <<vecVars, graphVars, appVars>>
    /\ embPc = "loop"
    /\ embIdx <= Len(embBatches)
    /\ embPc' = "await"
    /\ embInFlight' = embInFlight + Len(requestsIssued(embBatches, embIdx))
    /\ embLog' = embLog \o requestsIssued(embBatches, embIdx)
    /\ UNCHANGED <<embTexts, embTokens, embBatches, embIdx, embVectors, embResult>>

\* The response arrives and its vectors are mapped back.
EmbResponse ==
    /\ UNCHANGED <<vecVars, graphVars, appVars>>
    /\ embPc = "await"
    /\ embInFlight' = embInFlight - 1
    /\ embVectors' = storeResponse(embVectors, embBatches[embIdx],
                                   embeddingsCreate(embBatches[embIdx].inputs), 1)
    /\ embIdx' = embIdx + 1
    /\ embPc' = "loop"
    /\ UNCHANGED <<embTexts, embTokens, embBatches, embLog, embResult>>

\* Where a rejected request would leave the call were the rejection caught
\* and the batch tried again.
rejectionRetries == "loop"

\* Where a rejected request leaves the call: nothing catches it, the await
\* throws out of createEmbeddings.
rejectionLeaves == "failed"

\* The request rejects: the await throws out of createEmbeddings.
EmbFailure ==
    /\ UNCHANGED <<vecVars, graphVars, appVars>>
    /\ embPc = "await"
    /\ embInFlight' = embInFlight - 1
    /\ embPc' = rejectionLeaves
    /\ UNCHANGED <<embTexts, embTokens, embBatches, embIdx, embVectors, embLog, embResult>>

\* return vectors
EmbReturn ==
    /\ UNCHANGED <<vecVars, graphVars, appVars>>
    /\ embPc = "loop"
    /\ embIdx > Len(embBatches)
    /\ embPc' = "done"
    /\ embResult' = embVectors
    /\ UNCHANGED <<embTexts, embTokens, embBatches, embIdx, embVectors, embInFlight, embLog>>

\* The text lists a caller can pass; a call is made only when none is running.
CallableTexts == IF embPc = "idle" THEN SeqsUpTo(Texts, MaxTexts) ELSE {}

EmbNext ==
    \/ \E texts \in CallableTexts, tokens \in [Texts -> TokenVals] :
           EmbCall(texts, tokens)
    \/ EmbRequest
    \/ EmbResponse
    \/ EmbFailure
    \/ EmbReturn

(***************************************************************************)
(* Vector store manager: one collection of the store, and the callers of   *)
(* ensureCollection, upsertVectorsWithPayload and upsertIfMissing.  Every  *)
(* await of a client request is a step of its own, so that calls of        *)
(* different callers interleave at the awaits.                             *)
(***************************************************************************)
Procs == {"p1", "p2"}

MaxItems == 2

MaxConcItems == 1

Ids == {"a", "b"}

Dims == {3, 5}

V3a == <<1, 1, 1>>
V3b == <<2, 2, 2>>
V5 == <<1, 1, 1, 1, 1>>

NoPayload == [absent |-> TRUE]
NoPoint == [absent |-> TRUE]

\* The items callers pass: two ids, two vectors of one length, one of another.
ItemPool ==
    { [id |-> "a", vector |-> V3a, payload |-> NoPayload],
      [id |-> "a", vector |-> V3b, payload |-> [category |-> "hero"]],
      [id |-> "b", vector |-> V3a, payload |-> NoPayload],
      [id |-> "b", vector |-> V5, payload |-> NoPayload] }

\* The shapes a getCollection response comes in: the two the probe of
\* ensureCollection reads, and one it does not (the size is not under
\* result.config.params.vectors nor result.params.vectors).
ResponseShapes == {"result.config.params", "result.params", "other"}

\* The configuredDim probe of ensureCollection on a getCollection response.
configuredDim(shape, size) ==
    IF shape \in {"result.config.params", "result.params"} THEN size ELSE 0

\* The store's answer to upsert: every point is written in order, or none is.
RECURSIVE writePoints(_, _, _)
writePoints(points, batch, k) ==
    IF k > Len(batch) THEN points
    ELSE writePoints([points EXCEPT ![batch[k].id] =
                          [vector |-> batch[k].vector, payload |-> batch[k].payload]],
                     batch, k + 1)

\* Vector components are numbers; two values outside the range of the numbers
\* used stand for NaN and for a component that is not of type number.
NaN == 0 - 1
NonNumeric == 0 - 2

\* typeof n !== 'number' || Number.isNaN(n)
notANumber(n) == n = NonNumeric \/ n = NaN

\* The store rejects an upsert to a missing collection, of a wrong dimension,
\* with an empty point id or with a component that is not a number.
storeAcceptsUpsert(batch) ==
    /\ colExists
    /\ \A k \in 1..Len(batch) :
          /\ Len(batch[k].vector) = colDim
          /\ batch[k].id # ""
          /\ \A j \in 1..Len(batch[k].vector) : ~notANumber(batch[k].vector[j])

\* The store rejects a retrieve from a missing collection or with an empty point id.
storeAcceptsRetrieve(ids) ==
    /\ colExists
    /\ \A k \in 1..Len(ids) : ids[k] # ""

\* The points of the items, last item first.
toPointsReversed(items) ==
    [k \in 1..Len(items) |->
        LET it == items[Len(items) + 1 - k]
        IN [id |-> it.id, vector |-> it.vector,
            payload |-> IF it.payload = NoPayload THEN [id |-> it.id] ELSE it.payload]]

\* const points = items.map(it => ({ id, vector, payload: it.payload ?? { id } }))
toPoints(items) ==
    [k \in 1..Len(items) |->
        [id |-> items[k].id, vector |-> items[k].vector,
         payload |-> IF items[k].payload = NoPayload
                     THEN [id |-> items[k].id] ELSE items[k].payload]]

\* The dimension check of upsertVectorsWithPayload that skips the comparison.
vectorsShareDimLax(items) == TRUE

\* The dimension check of upsertVectorsWithPayload: every vector is as long as the first.
vectorsShareDim(items) ==
    LET dim == Len(items[1].vector)
    IN \A i \in 1..Len(items) : Len(items[i].vector) = dim

\* items.filter(i => !existing.has(i.id)), keeping every item.
filterMissingAll(items, existing) == items

\* items.filter(i => !existing.has(i.id))
filterMissing(items, existing) == SelectSeq(items, LAMBDA it : it.id \notin existing)

IdsOf(items) == {items[k].id : k \in 1..Len(items)}

Snapshot == [exists |-> colExists, dim |-> colDim, points |-> colPoints]

OkOut(ins, skp) == [status |-> "ok", kind |-> "", inserted |-> ins, skipped |-> skp]
ErrOut(kind) == [status |-> "error", kind |-> kind, inserted |-> 0, skipped |-> 0]
NoOut == [status |-> "none", kind |-> "", inserted |-> 0, skipped |-> 0]
NoCall == [op |-> "none", items |-> <<>>, out |-> NoOut, reqs |-> <<>>,
           before |-> [exists |-> FALSE, dim |-> 0, points |-> [i \in Ids |-> NoPoint]]]

Req(kind, arg) == [kind |-> kind, arg |-> arg]

\* What a rejected client request throws: status and statusText may be
\* missing (0 and ""), the message never is.
ClientError(status, statusText, message) ==
    [status |-> status, statusText |-> statusText, message |-> message]
NoError == ClientError(0, "", "")

\* The shapes in which the client reports that the collection does not exist.
NotFoundErrors ==
    { ClientError(404, "Not Found", "Not Found"),
      ClientError(0, "Not Found", "Request failed"),
      ClientError(0, "", "Not found: Collection docs doesn't exist!") }

\* Other failures of a request: the store is down, refuses the key, or cannot be reached.
OtherErrors ==
    { ClientError(500, "Internal Server Error", "Internal Server Error"),
      ClientError(401, "Unauthorized", "Unauthorized"),
      ClientError(0, "", "fetch failed") }

\* String(x).toLowerCase() on the texts above.
toLowerCase(str) ==
    CASE str = "Not Found" -> "not found"
      [] str = "Request failed" -> "request failed"
      [] str = "Not found: Collection docs doesn't exist!" -> "not found: collection docs doesn't exist!"
      [] str = "Internal Server Error" -> "internal server error"
      [] str = "Unauthorized" -> "unauthorized"
      [] OTHER -> str

\* lower.includes('not found') on the lower-cased texts above.
includesNotFound(lower) ==
    lower \in {"not found", "not found: collection docs doesn't exist!"}

\* The catch block's test that treats every failure as "not found".
isNotFoundAlways(e) == TRUE

\* The catch block's test: status === 404 || statusText.toLowerCase() === 'not found'
\* || msg.toLowerCase().includes('not found')
isNotFound(e) ==
    \/ e.status = 404
    \/ toLowerCase(e.statusText) = "not found"
    \/ includesNotFound(toLowerCase(e.message))

\* No caller of the vector store manager has a call in progress.
VecCallersIdle(active) ==
    /\ vActive = active
    /\ vPc = [p \in Procs |-> "idle"]
    /\ vOp = [p \in Procs |-> "none"]
    /\ vArg = [p \in Procs |-> 0]
    /\ vItems = [p \in Procs |-> <<>>]
    /\ vExisting = [p \in Procs |-> {}]
    /\ vErr = [p \in Procs |-> NoError]
    /\ vMissing = [p \in Procs |-> <<>>]
    /\ vOut = [p \in Procs |-> NoOut]
    /\ vReqs = [p \in Procs |-> <<>>]
    /\ vPrev = [p \in Procs |-> NoCall]
    /\ vSnap = [p \in Procs |-> Snapshot]

VecInit(active, exists) ==
    /\ colExists = exists
    /\ colDim = IF exists THEN 3 ELSE 0
    /\ colPoints = [i \in Ids |-> NoPoint]
    /\ VecCallersIdle(active)

\* Bookkeeping shared by every call.  When the call repeats the caller's
\* finished call (same operation, same items) that call is remembered as the
\* previous one; no other history is kept.
StartCall(p, op, arg, items) ==
    /\ UNCHANGED <<embVars, graphVars, appVars>>
    /\ p \in vActive
    /\ vPc[p] \in {"idle", "done"}
    /\ vOp' = [vOp EXCEPT ![p] = op]
    /\ vArg' = [vArg EXCEPT ![p] = arg]
    /\ vItems' = [vItems EXCEPT ![p] = items]
    /\ vPrev' = [vPrev EXCEPT ![p] =
                    IF vPc[p] = "done" /\ op = vOp[p] /\ items = vItems[p]
                    THEN [op |-> vOp[p], items |-> vItems[p], out |-> vOut[p],
                          reqs |-> vReqs[p], before |-> vSnap[p]]
                    ELSE NoCall]
    /\ vSnap' = [vSnap EXCEPT ![p] = Snapshot]
    /\ vExisting' = [vExisting EXCEPT ![p] = {}]
    /\ vErr' = [vErr EXCEPT ![p] = NoError]
    /\ UNCHANGED <<colExists, colDim, colPoints, vActive>>

Finish(p, out) ==
    /\ vPc' = [vPc EXCEPT ![p] = "done"]
    /\ vOut' = [vOut EXCEPT ![p] = out]

\* upsertVectorsWithPayload(collection, items) up to its await, entered with
\* the request log `reqs` of the enclosing call.  `after` is the result the
\* enclosing call returns once the upsert is acknowledged.
UpsertVectorsEnter(p, items, reqs) ==
    IF Len(items) = 0
    THEN /\ Finish(p, OkOut(0, 0))
         /\ vReqs' = [vReqs EXCEPT ![p] = reqs]
    ELSE IF ~vectorsShareDim(items)
    THEN /\ Finish(p, ErrOut("validation"))
         /\ vReqs' = [vReqs EXCEPT ![p] = reqs]
    ELSE /\ vPc' = [vPc EXCEPT ![p] = "wait_upsert"]
         /\ vReqs' = [vReqs EXCEPT ![p] = Append(reqs, Req("upsert", toPoints(items)))]
         /\ UNCHANGED vOut

\* A caller invokes upsertVectorsWithPayload directly.
UpsertVectorsCall(p, items) ==
    /\ StartCall(p, "upsertVectorsWithPayload", 0, items)
    /\ vMissing' = [vMissing EXCEPT ![p] = items]
    /\ UpsertVectorsEnter(p, items, <<>>)

\* upsertIfMissing(collection, items) up to the await in retrieveExistingIds.
UpsertIfMissingCall(p, items) ==
    /\ StartCall(p, "upsertIfMissing", 0, items)
    /\ vMissing' = [vMissing EXCEPT ![p] = <<>>]
    /\ IF Len(items) = 0
       THEN \* retrieveExistingIds short-circuits; nothing is missing.
            /\ Finish(p, OkOut(0, 0))
            /\ vReqs' = [vReqs EXCEPT ![p] = <<>>]
       ELSE /\ vPc' = [vPc EXCEPT ![p] = "wait_retrieve"]
            /\ vReqs' = [vReqs EXCEPT ![p] =
                            <<Req("retrieve", [k \in 1..Len(items) |-> items[k].id])>>]
            /\ UNCHANGED vOut

\* client.retrieve answers; upsertIfMissing filters and enters the upsert.
UpsertIfMissingRetrieved(p) ==
    /\ UNCHANGED <<embVars, graphVars, appVars>>
    /\ p \in vActive
    /\ vPc[p] = "wait_retrieve"
    /\ UNCHANGED <<colExists, colDim, colPoints, vActive, vOp, vArg, vItems, vPrev, vSnap, vErr>>
    /\ IF ~storeAcceptsRetrieve(vReqs[p][1].arg)
       THEN /\ Finish(p, ErrOut("store"))
            /\ UNCHANGED <<vExisting, vMissing, vReqs>>
       ELSE LET existing == {i \in IdsOf(vItems[p]) : colPoints[i] # NoPoint}
                missing == filterMissing(vItems[p], existing)
            IN /\ vExisting' = [vExisting EXCEPT ![p] = existing]
               /\ vMissing' = [vMissing EXCEPT ![p] = missing]
               /\ IF Len(missing) > 0
                  THEN UpsertVectorsEnter(p, missing, vReqs[p])
                  ELSE /\ Finish(p, OkOut(0, Len(vItems[p])))
                       /\ UNCHANGED vReqs

\* client.upsert answers: the store has written the points or rejected them.
UpsertAnswered(p) ==
    /\ UNCHANGED <<embVars, graphVars, appVars>>
    /\ p \in vActive
    /\ vPc[p] = "wait_upsert"
    /\ LET batch == vReqs[p][Len(vReqs[p])].arg
       IN IF storeAcceptsUpsert(batch)
          THEN /\ colPoints' = writePoints(colPoints, batch, 1)
               /\ Finish(p, IF vOp[p] = "upsertIfMissing"
                            THEN OkOut(Len(vMissing[p]), Len(vItems[p]) - Len(vMissing[p]))
                            ELSE OkOut(0, 0))
               /\ UNCHANGED vReqs
          ELSE /\ UNCHANGED colPoints
               /\ Finish(p, ErrOut("store"))
               \* upsertEmbeddings probes the collection for its log line and rethrows.
               /\ vReqs' = [vReqs EXCEPT ![p] =
                               IF vOp[p] = "upsertEmbeddings"
                               THEN Append(@, Req("getCollection", 0)) ELSE @]
    /\ UNCHANGED <<colExists, colDim, vActive, vOp, vArg, vItems, vExisting, vMissing,
                   vPrev, vSnap, vErr>>

\* assertVectorsValid(ids, vectors): the message of the first check that
\* throws, or "ok".
assertVectorsValid(ids, vectors) ==
    LET minLen == IF Len(ids) < Len(vectors) THEN Len(ids) ELSE Len(vectors)
        usedIds == SubSeq(ids, 1, minLen)
        usedVectors == SubSeq(vectors, 1, minLen)
        dim == IF minLen > 0 THEN Len(usedVectors[1]) ELSE 0
        bad(i) == \/ usedIds[i] = ""
                  \/ Len(usedVectors[i]) # dim
                  \/ \E j \in 1..Len(usedVectors[i]) : notANumber(usedVectors[i][j])
    IN IF minLen = 0 THEN "No ids provided"
       ELSE IF dim = 0 THEN "First vector is empty"
       ELSE IF \E i \in 1..minLen : bad(i) THEN "invalid item"
       ELSE "ok"

\* usedIds.map((id, i) => ({ id, vector: usedVectors[i], payload: { id } })),
\* as the items of the call.
usedItems(ids, vectors) ==
    LET minLen == IF Len(ids) < Len(vectors) THEN Len(ids) ELSE Len(vectors)
    IN [i \in 1..minLen |-> [id |-> ids[i], vector |-> vectors[i], payload |-> NoPayload]]

\* upsertEmbeddings(collection, ids, vectors) up to the await of client.upsert.
UpsertEmbeddingsCall(p, ids, vectors) ==
    /\ StartCall(p, "upsertEmbeddings", 0, usedItems(ids, vectors))
    /\ vMissing' = [vMissing EXCEPT ![p] = <<>>]
    /\ IF assertVectorsValid(ids, vectors) # "ok"
       THEN /\ Finish(p, ErrOut("validation"))
            /\ vReqs' = [vReqs EXCEPT ![p] = <<>>]
       ELSE /\ vPc' = [vPc EXCEPT ![p] = "wait_upsert"]
            /\ vReqs' = [vReqs EXCEPT ![p] =
                            <<Req("upsert", toPoints(usedItems(ids, vectors)))>>]
            /\ UNCHANGED vOut

\* ensureCollection(name, vectorSize) up to the await of getCollection.
EnsureCollectionCall(p, d) ==
    /\ StartCall(p, "ensureCollection", d, <<>>)
    /\ vMissing' = [vMissing EXCEPT ![p] = <<>>]
    /\ vPc' = [vPc EXCEPT ![p] = "wait_get"]
    /\ vReqs' = [vReqs EXCEPT ![p] = <<Req("getCollection", 0)>>]
    /\ UNCHANGED vOut

\* getCollection answers for an existing collection: the dimension is probed
\* and the collection is recreated on a mismatch, else left as it is.
EnsureCollectionGot(p) ==
    /\ UNCHANGED <<embVars, graphVars, appVars>>
    /\ p \in vActive
    /\ vPc[p] = "wait_get"
    /\ colExists
    /\ UNCHANGED <<colExists, colDim, colPoints, vActive, vOp, vArg, vItems, vExisting,
                   vMissing, vPrev, vSnap, vErr>>
    /\ \E shape \in ResponseShapes :
          LET dim == configuredDim(shape, colDim)
          IN IF dim # 0 /\ dim # vArg[p]
             THEN /\ vPc' = [vPc EXCEPT ![p] = "wait_delete"]
                  /\ vReqs' = [vReqs EXCEPT ![p] =
                                  Append(vReqs[p], Req("deleteCollection", 0))]
                  /\ UNCHANGED vOut
             ELSE /\ Finish(p, OkOut(0, 0))
                  /\ UNCHANGED vReqs

\* getCollection rejects, with a "not found" error when the collection is
\* absent or with another failure at any time: the catch block creates the
\* collection on "not found" and rethrows anything else.
EnsureCollectionGetFailed(p) ==
    /\ UNCHANGED <<embVars, graphVars, appVars>>
    /\ p \in vActive
    /\ vPc[p] = "wait_get"
    /\ UNCHANGED <<colExists, colDim, colPoints, vActive, vOp, vArg, vItems, vExisting,
                   vMissing, vPrev, vSnap>>
    /\ \E e \in (IF colExists THEN {} ELSE NotFoundErrors) \cup OtherErrors :
          /\ vErr' = [vErr EXCEPT ![p] = e]
          /\ IF isNotFound(e)
             THEN /\ vPc' = [vPc EXCEPT ![p] = "wait_create"]
                  /\ vReqs' = [vReqs EXCEPT ![p] =
                                  Append(vReqs[p], Req("createCollection", vArg[p]))]
                  /\ UNCHANGED vOut
             ELSE /\ Finish(p, ErrOut("store"))
                  /\ UNCHANGED vReqs

\* deleteCollection answers; createCollection is sent next.
EnsureCollectionDeleted(p) ==
    /\ UNCHANGED <<embVars, graphVars, appVars>>
    /\ p \in vActive
    /\ vPc[p] = "wait_delete"
    /\ colExists' = FALSE
    /\ colDim' = 0
    /\ colPoints' = [i \in Ids |-> NoPoint]
    /\ vPc' = [vPc EXCEPT ![p] = "wait_create"]
    /\ vReqs' = [vReqs EXCEPT ![p] = Append(vReqs[p], Req("createCollection", vArg[p]))]
    /\ UNCHANGED <<vActive, vOp, vArg, vItems, vExisting, vMissing, vOut, vPrev, vSnap, vErr>>

\* createCollection answers: { vectors: { size: vectorSize, distance: 'Cosine' } }.
EnsureCollectionCreated(p) ==
    /\ UNCHANGED <<embVars, graphVars, appVars>>
    /\ p \in vActive
    /\ vPc[p] = "wait_create"
    /\ IF colExists
       THEN /\ Finish(p, ErrOut("store"))
            /\ UNCHANGED <<colExists, colDim, colPoints>>
       ELSE /\ colExists' = TRUE
            /\ colDim' = vArg[p]
            /\ colPoints' = [i \in Ids |-> NoPoint]
            /\ Finish(p, OkOut(0, 0))
    /\ UNCHANGED <<vActive, vOp, vArg, vItems, vExisting, vMissing, vReqs, vPrev, vSnap, vErr>>

(***************************************************************************)
(* Graph store manager.  The store holds nodes (labels + property map; id  *)
(* and name are properties) and RELATIONSHIP edges (property map with the  *)
(* type discriminator).  Nodes and edges are kept in creation order; an    *)
(* edge names its endpoints by their position in gNodes.                   *)
(***************************************************************************)
MaxNodes == 2

MaxEdges == 2

MaxBulk == 2

EntityIds == {"e1", "e2"}

Names == {"A", "B"}

RelTypes == {"T1", "T2"}

EmptyMap == [k \in {} |-> ""]

\* n += props: every key of props is written over the map.
MergeMap(a, b) == [k \in DOMAIN a \cup DOMAIN b |-> IF k \in DOMAIN b THEN b[k] ELSE a[k]]

Letters == {"E", "n", "t", "i", "y", "C", "o", "m", "p", "e", "x"}
Digits == {"0", "1", "2", "3", "4", "5", "6", "7", "8", "9"}

\* The characters of the label names callers pass.
LabelChars(l) ==
    CASE l = "Entity" -> <<"E", "n", "t", "i", "t", "y">>
      [] l = "Component" -> <<"C", "o", "m", "p", "o", "n", "e", "n", "t">>
      [] l = "x y" -> <<"x", " ", "y">>
      [] OTHER -> <<"9", "x">>

\* /^[A-Za-z_][A-Za-z0-9_]*$/.test(label)
isSafeIdentifier(chars) ==
    /\ Len(chars) >= 1
    /\ chars[1] \in Letters \cup {"_"}
    /\ \A i \in 2..Len(chars) : chars[i] \in Letters \cup Digits \cup {"_"}

sanitizeLabel(l) == IF isSafeIdentifier(LabelChars(l)) THEN l ELSE "Entity"

\* labels.map(l => `:${sanitizeLabel(l)}`).join(''): the labels of the MERGE pattern.
patternLabels(labels) == {sanitizeLabel(labels[k]) : k \in 1..Len(labels)}

\* Nodes matched by the pattern (n {id: $id}), whatever their labels.
matchNodesOfAnyLabel(nodes, labelSet, id) ==
    {i \in 1..Len(nodes) : /\ "id" \in DOMAIN nodes[i].props
                           /\ nodes[i].props["id"] = id}

\* Nodes matched by the pattern (n:L1:L2 {id: $id}).
matchNodes(nodes, labelSet, id) ==
    {i \in 1..Len(nodes) : /\ labelSet \subseteq nodes[i].labels
                           /\ "id" \in DOMAIN nodes[i].props
                           /\ nodes[i].props["id"] = id}

\* SET n.name = coalesce(n.name, $name)
coalesceName(props, name) ==
    IF "name" \in DOMAIN props THEN ("name" :> props["name"]) ELSE ("name" :> name)

\* MERGE (n:labels {id: $id}) SET n.name = coalesce(n.name, $name) SET n += $props
mergeEntity(nodes, id, name, labels, props) ==
    LET L == patternLabels(labels)
        M == matchNodes(nodes, L, id)
        nodes1 == IF M = {} THEN Append(nodes, [labels |-> L, props |-> ("id" :> id)])
                  ELSE nodes
        T == IF M = {} THEN {Len(nodes1)} ELSE M
    IN [i \in 1..Len(nodes1) |->
           IF i \in T
           THEN [nodes1[i] EXCEPT !.props =
                    MergeMap(MergeMap(@, coalesceName(@, name)), props)]
           ELSE nodes1[i]]

\* The uniqueness constraint on (:Entity {id}) is broken by these nodes.
violatesUniqueId(nodes) ==
    \E i, j \in 1..Len(nodes) :
        /\ i # j
        /\ "Entity" \in nodes[i].labels /\ "Entity" \in nodes[j].labels
        /\ "id" \in DOMAIN nodes[i].props /\ "id" \in DOMAIN nodes[j].props
        /\ nodes[i].props["id"] = nodes[j].props["id"]

\* Edges matched by (a)-[r:RELATIONSHIP {type: $type}]->(b).
matchEdges(edges, a, b, type) ==
    {k \in 1..Len(edges) : /\ edges[k].src = a /\ edges[k].dst = b
                           /\ "type" \in DOMAIN edges[k].props
                           /\ edges[k].props["type"] = type}

\* MERGE (a)-[r:RELATIONSHIP {type}]->(b) SET r += props, for one row (a, b).
mergeEdge(edges, a, b, type, props) ==
    LET M == matchEdges(edges, a, b, type)
        edges1 == IF M = {} THEN Append(edges, [src |-> a, dst |-> b, props |-> ("type" :> type)])
                  ELSE edges
        T == IF M = {} THEN {Len(edges1)} ELSE M
    IN [k \in 1..Len(edges1) |->
           IF k \in T THEN [edges1[k] EXCEPT !.props = MergeMap(@, props)] ELSE edges1[k]]

RECURSIVE mergeEdgeRows(_, _, _, _)
\* The rows (a, b) of the MATCH, in order.
mergeEdgeRows(edges, rows, type, props) ==
    IF rows = <<>> THEN edges
    ELSE mergeEdgeRows(mergeEdge(edges, rows[1][1], rows[1][2], type, props),
                       Tail(rows), type, props)

RECURSIVE SetToSeq(_)
SetToSeq(S) == IF S = {} THEN <<>>
               ELSE LET x == CHOOSE y \in S : \A z \in S : y[1] < z[1] \/ (y[1] = z[1] /\ y[2] <= z[2])
                    IN <<x>> \o SetToSeq(S \ {x})

\* MATCH (a:Entity {id: $source}), (b:Entity {id: $target}) MERGE ... SET r += $props
mergeRelationship(nodes, edges, source, target, type, props) ==
    LET A == matchNodes(nodes, {"Entity"}, source)
        B == matchNodes(nodes, {"Entity"}, target)
    IN mergeEdgeRows(edges, SetToSeq(A \X B), type, props)

NoGraphCall == [op |-> "none", status |-> "none", id |-> "", name |-> "", labels |-> <<>>,
                props |-> EmptyMap, source |-> "", target |-> "", type |-> "",
                nodes |-> <<>>, rels |-> <<>>, ids |-> <<>>, subgraph |-> <<>>]

GraphInit ==
    /\ gNodes = <<>>
    /\ gEdges = <<>>
    /\ gConstraint = FALSE
    /\ gPc = "idle"
    /\ gTx = [nodes |-> <<>>, edges |-> <<>>]
    /\ gArgs = [nodes |-> <<>>, rels |-> <<>>]
    /\ gLast = NoGraphCall
    /\ gSnap = [nodes |-> <<>>, edges |-> <<>>]

GraphNow == [nodes |-> gNodes, edges |-> gEdges]

\* upsertEntity(id, name, labels, props): one auto-committed statement.
UpsertEntity(id, name, labels, props) ==
    /\ UNCHANGED <<embVars, vecVars, appVars>>
    /\ gPc = "idle"
    /\ LET after == mergeEntity(gNodes, id, name, labels, props)
           failed == gConstraint /\ violatesUniqueId(after)
       IN /\ Len(after) <= MaxNodes
          /\ gNodes' = IF failed THEN gNodes ELSE after
          /\ gLast' = [NoGraphCall EXCEPT !.op = "upsertEntity",
                          !.status = IF failed THEN "error" ELSE "ok",
                          !.id = id, !.name = name, !.labels = labels, !.props = props]
    /\ gSnap' = GraphNow
    /\ gPc' = "settled"
    /\ UNCHANGED <<gEdges, gConstraint, gTx, gArgs>>

\* upsertRelationship(sourceId, targetId, type, props): one auto-committed statement.
UpsertRelationship(source, target, type, props) ==
    /\ UNCHANGED <<embVars, vecVars, appVars>>
    /\ gPc = "idle"
    /\ LET after == mergeRelationship(gNodes, gEdges, source, target, type, props)
       IN /\ Len(after) <= MaxEdges
          /\ gEdges' = after
    /\ gLast' = [NoGraphCall EXCEPT !.op = "upsertRelationship", !.status = "ok",
                    !.source = source, !.target = target, !.type = type, !.props = props]
    /\ gSnap' = GraphNow
    /\ gPc' = "settled"
    /\ UNCHANGED <<gNodes, gConstraint, gTx, gArgs>>

\* GraphRepository.ensureUniqueIdConstraint('Entity'): CREATE CONSTRAINT IF NOT EXISTS.
EnsureUniqueIdConstraint ==
    /\ UNCHANGED <<embVars, vecVars, appVars>>
    /\ gPc = "idle"
    /\ gConstraint' = (gConstraint \/ ~violatesUniqueId(gNodes))
    /\ gLast' = [NoGraphCall EXCEPT !.op = "ensureUniqueIdConstraint",
                    !.status = IF ~gConstraint /\ violatesUniqueId(gNodes)
                               THEN "error" ELSE "ok"]
    /\ gSnap' = GraphNow
    /\ gPc' = "settled"
    /\ UNCHANGED <<gNodes, gEdges, gTx, gArgs>>

\* The ends of relationship k seen from node i, whatever its direction:
\* the pattern (i)-[k]-(j).
incident(edges, i) ==
    {<<k, edges[k].dst>> : k \in {x \in 1..Len(edges) : edges[x].src = i}}
    \cup {<<k, edges[k].src>> : k \in {x \in 1..Len(edges) : edges[x].dst = i}}

\* (e:Entity) WHERE e.id IN $entity_ids
seedNodes(nodes, ids) ==
    {i \in 1..Len(nodes) : /\ "Entity" \in nodes[i].labels
                           /\ "id" \in DOMAIN nodes[i].props
                           /\ \E k \in 1..Len(ids) : ids[k] = nodes[i].props["id"]}

\* MATCH (e:Entity)-[r1]-(n1)-[r2]-(n2): a relationship is matched once in a pattern.
twoHopRecords(nodes, edges, ids) ==
    UNION { UNION { {<<e, h1[1], h1[2], h2[1], h2[2]>> :
                        h2 \in {h \in incident(edges, h1[2]) : h[1] # h1[1]}} :
                    h1 \in incident(edges, e)} :
            e \in seedNodes(nodes, ids)}

\* MATCH (e:Entity)-[r]-(related) RETURN e, r, related, null as r2, null as n2
oneHopRecords(nodes, edges, ids) ==
    UNION { {<<e, h[1], h[2], 0, 0>> : h \in incident(edges, e)} : e \in seedNodes(nodes, ids)}

\* { entity: e.properties, relationship: r.properties, related_node: related.properties }
SubgraphTriple(nodes, edges, e, r, n) ==
    [entity |-> nodes[e].props, relationship |-> edges[r].props, related_node |-> nodes[n].props]

RECURSIVE subgraphOf(_, _, _)
\* The loop over result.records: the first hop of every record, then its
\* second hop if r2 && n2.
subgraphOf(nodes, edges, records) ==
    IF records = <<>> THEN <<>>
    ELSE LET rec == records[1]
         IN <<SubgraphTriple(nodes, edges, rec[1], rec[2], rec[3])>>
            \o (IF rec[4] # 0 /\ rec[5] # 0
                THEN <<SubgraphTriple(nodes, edges, rec[3], rec[4], rec[5])>>
                ELSE <<>>)
            \o subgraphOf(nodes, edges, Tail(records))

\* fetchRelatedGraph(entityIds): the records of the UNION of the two
\* matches, in the order the store returns them, flattened into triples.
fetchRelatedGraph(nodes, edges, ids) ==
    subgraphOf(nodes, edges,
               SetToSeq(twoHopRecords(nodes, edges, ids)) \o SetToSeq(oneHopRecords(nodes, edges, ids)))

\* fetchRelatedGraph(entityIds): one read statement.
FetchRelatedGraph(ids) ==
    /\ UNCHANGED <<embVars, vecVars, appVars>>
    /\ gPc = "idle"
    /\ gLast' = [NoGraphCall EXCEPT !.op = "fetchRelatedGraph", !.status = "ok", !.ids = ids,
                    !.subgraph = fetchRelatedGraph(gNodes, gEdges, ids)]
    /\ gSnap' = GraphNow
    /\ gPc' = "settled"
    /\ UNCHANGED <<gNodes, gEdges, gConstraint, gTx, gArgs>>

\* The promise of the finished call settles and its caller moves on.
GraphSettle ==
    /\ UNCHANGED <<embVars, vecVars, appVars>>
    /\ gPc = "settled"
    /\ gPc' = "idle"
    /\ gLast' = NoGraphCall
    /\ gSnap' = [nodes |-> <<>>, edges |-> <<>>]
    /\ gTx' = [nodes |-> <<>>, edges |-> <<>>]
    /\ gArgs' = [nodes |-> <<>>, rels |-> <<>>]
    /\ UNCHANGED <<gNodes, gEdges, gConstraint>>

(***************************************************************************)
(* Query texts of the graph store manager.  A query text is the sequence   *)
(* of its parts: fixed text of the source, a label or a property key       *)
(* interpolated into the text, a number interpolated into the text, or a   *)
(* reference to a bound parameter.                                         *)
(***************************************************************************)
NoPrevious == [name |-> "none", args |-> <<>>, ok |-> FALSE]

\* No function is being applied.
FnIdle ==
    /\ fnPc = "idle"
    /\ fnName = "none"
    /\ fnIn = <<>>
    /\ fnOut = <<>>
    /\ fnReqs = <<>>
    /\ fnPrev = NoPrevious

\* The function is applied to its arguments and returns.
FnApply(result) ==
    /\ UNCHANGED <<embVars, vecVars, graphVars, ingVars, sessVars, regVars, fnPrev>>
    /\ fnPc = "ready"
    /\ fnPc' = "done"
    /\ fnOut' = result
    /\ UNCHANGED <<fnName, fnIn, fnReqs>>

MaxLabels == 2

Fixed(text) == [kind |-> "fixed", text |-> text]
LabelPart(label) == [kind |-> "label", text |-> label]
KeyPart(key) == [kind |-> "key", text |-> key]
NumberPart(name) == [kind |-> "number", text |-> name]
DirectionPart(direction) == [kind |-> "direction", text |-> direction]
Param(name) == [kind |-> "param", text |-> name]

\* labels.map((l) => `:${sanitizeLabel(l)}`).join('')
labelsCypher(labels) == [k \in 1..Len(labels) |-> LabelPart(sanitizeLabel(labels[k]))]

\* A parameter with a default: label: string = 'Entity'
labelOrDefault(labels) == IF Len(labels) > 0 THEN labels[1] ELSE "Entity"

\* filter.label ? sanitizeLabel(filter.label) : 'Entity', for the k-th optional label
sanitizedOrEntity(labels, k) == IF Len(labels) >= k THEN sanitizeLabel(labels[k]) ELSE "Entity"

\* buildWhere(alias, where) / the whereEntries of listNodes, for one key
whereParts(key) == <<Fixed("WHERE "), KeyPart(key), Fixed(" = "), Param(key)>>

\* The methods that build a query text from caller-supplied labels.
QueryMethods ==
    {"upsertEntity", "getNodeById", "listNodes", "deleteNode", "ensureUniqueIdConstraint",
     "findByName", "listNodesAdvanced", "listRelationships", "ingestBulkTransactional"}

\* The query text a method builds from the labels it is given.
queryText(method, labels) ==
    CASE method = "upsertEntity" ->
            <<Fixed("MERGE (n")>> \o labelsCypher(labels)
            \o <<Fixed(" {id: "), Param("id"), Fixed("}) SET n.name = coalesce(n.name, "),
                 Param("name"), Fixed(") SET n += "), Param("props")>>
      [] method = "getNodeById" ->
            <<Fixed("MATCH (n:"), LabelPart(labelOrDefault(labels)), Fixed(" {id: "),
              Param("id"), Fixed("}) RETURN n")>>
      [] method = "listNodes" ->
            <<Fixed("MATCH (n:"), LabelPart(sanitizedOrEntity(labels, 1)), Fixed(") ")>>
            \o whereParts("category")
            \o <<Fixed(" RETURN n SKIP "), NumberPart("offset"), Fixed(" LIMIT "),
                 NumberPart("limit")>>
      [] method = "deleteNode" ->
            <<Fixed("MATCH (n:"), LabelPart(labelOrDefault(labels)), Fixed(" {id: "),
              Param("id"), Fixed("}) DETACH DELETE n")>>
      [] method = "ensureUniqueIdConstraint" ->
            <<Fixed("CREATE CONSTRAINT IF NOT EXISTS FOR (n:"), LabelPart(labelOrDefault(labels)),
              Fixed(") REQUIRE n.id IS UNIQUE")>>
      [] method = "findByName" ->
            <<Fixed("MATCH (n:"), LabelPart(labelOrDefault(labels)),
              Fixed(") WHERE toLower(n.name) CONTAINS toLower("), Param("name"),
              Fixed(") RETURN n LIMIT "), Param("limit")>>
      [] method = "listNodesAdvanced" ->
            <<Fixed("MATCH (n")>> \o labelsCypher(IF Len(labels) > 0 THEN labels ELSE <<"Entity">>)
            \o <<Fixed(") ")>> \o whereParts("category")
            \o <<Fixed(" RETURN n ORDER BY n."), KeyPart("name"), Fixed(" "),
                 DirectionPart("ASC"), Fixed(" SKIP "), NumberPart("offset"),
                 Fixed(" LIMIT "), NumberPart("limit")>>
      [] method = "listRelationships" ->
            <<Fixed("MATCH (a:"), LabelPart(sanitizedOrEntity(labels, 1)),
              Fixed(")-[r:RELATIONSHIP {type: "), Param("rel_type"), Fixed("}]->(b:"),
              LabelPart(sanitizedOrEntity(labels, 2)), Fixed(") ")>>
            \o whereParts("category") \o <<Fixed(" RETURN a, r, b")>>
      [] OTHER ->
            <<Fixed("UNWIND "), Param("rows"),
              Fixed(" AS row CALL apoc.merge.node(row.labels, {id: row.id}, {name: row.name}, row.props) YIELD node RETURN count(node)")>>

\* The label names callers pass, safe and not.
QueryLabels == {"Entity", "Component", "x y", "9x"}

\* A method is about to build its query text from the labels given.
QueryReady ==
    /\ fnPc = "ready"
    /\ fnName \in QueryMethods
    /\ fnIn \in SeqsUpTo(QueryLabels, MaxLabels)
    /\ fnOut = <<>>
    /\ fnReqs = <<>>
    /\ fnPrev = NoPrevious

\* The method builds the text it passes to session.run / tx.run.
BuildQuery ==
    /\ fnName \in QueryMethods
    /\ FnApply(queryText(fnName, fnIn))

(***************************************************************************)
(* Sessions.  Every operation of the graph store manager takes the driver  *)
(* singleton, opens a session, awaits its statements inside try and closes *)
(* the session in finally.  Callers run concurrently: each await is a step.*)
(***************************************************************************)
MaxSessions == 3
MaxStatements == 2

Callers == {"o1", "o2"}

SessionOps ==
    {"ingestToNeo4j", "fetchRelatedGraph", "upsertEntity", "upsertRelationship",
     "getNodeById", "listNodes", "deleteNode", "deleteRelationship",
     "ensureUniqueIdConstraint", "findByName", "listNodesAdvanced", "listRelationships",
     "listNeighborsByDepth", "ingestBulkTransactional"}

\* The numbers of awaits an operation can make inside its try block:
\* ingestToNeo4j runs one statement per node and per relationship, every
\* other operation awaits one session.run or one session.executeWrite.
awaitsOf(op) == IF op = "ingestToNeo4j" THEN 0..MaxStatements ELSE {1}

\* driver.session(): a new session at every call.
driverSession(next) == next

\* finally { await session.close() } runs whatever the outcome of try.
closesOnSuccessOnly(outcome) == outcome = "ok"
finallyCloses(outcome) == TRUE

SessInit ==
    /\ sPc = [p \in Callers |-> "idle"]
    /\ sSess = [p \in Callers |-> 0]
    /\ sOpened = [p \in Callers |-> 0]
    /\ sLeft = [p \in Callers |-> 0]
    /\ sOut = [p \in Callers |-> "none"]
    /\ sOpen = {}
    /\ sNext = 1
    /\ sUsers = [s \in 1..MaxSessions |-> 0]
    /\ sPeak = 0

\* The try block is left with the given outcome: the finally block runs.
EnterFinally(p, outcome) ==
    /\ sOut' = [sOut EXCEPT ![p] = outcome]
    /\ sPc' = [sPc EXCEPT ![p] = IF finallyCloses(outcome) THEN "closing" ELSE "done"]

\* const driver = getNeo4jDriver(); const session = driver.session(); the
\* operation runs up to its first await.
SessionCall(p, op, n) ==
    /\ UNCHANGED <<embVars, vecVars, graphVars, ingVars, fnVars, regVars>>
    /\ sPc[p] = "idle"
    /\ n \in awaitsOf(op)
    /\ sNext <= MaxSessions
    /\ LET s == driverSession(sNext)
       IN /\ sSess' = [sSess EXCEPT ![p] = s]
          /\ sOpen' = sOpen \cup {s}
          /\ sUsers' = [sUsers EXCEPT ![s] = @ + 1]
          /\ sPeak' = IF Cardinality(sOpen \cup {s}) > sPeak
                      THEN Cardinality(sOpen \cup {s}) ELSE sPeak
    /\ sNext' = sNext + 1
    /\ sOpened' = [sOpened EXCEPT ![p] = 1]
    /\ sLeft' = [sLeft EXCEPT ![p] = n]
    /\ IF n = 0 THEN EnterFinally(p, "ok")
       ELSE /\ sPc' = [sPc EXCEPT ![p] = "running"]
            /\ sOut' = [sOut EXCEPT ![p] = "none"]

\* An awaited session.run / session.executeWrite resolves.
SessionRunOk(p) ==
    /\ UNCHANGED <<embVars, vecVars, graphVars, ingVars, fnVars, regVars>>
    /\ sPc[p] = "running"
    /\ sLeft' = [sLeft EXCEPT ![p] = @ - 1]
    /\ IF sLeft[p] = 1 THEN EnterFinally(p, "ok")
       ELSE UNCHANGED <<sPc, sOut>>
    /\ UNCHANGED <<sSess, sOpened, sOpen, sNext, sUsers, sPeak>>

\* An awaited session.run / session.executeWrite rejects.
SessionRunFail(p) ==
    /\ UNCHANGED <<embVars, vecVars, graphVars, ingVars, fnVars, regVars>>
    /\ sPc[p] = "running"
    /\ EnterFinally(p, "error")
    /\ UNCHANGED <<sSess, sOpened, sLeft, sOpen, sNext, sUsers, sPeak>>

\* await session.close() resolves; the operation completes with its outcome.
SessionClosed(p) ==
    /\ UNCHANGED <<embVars, vecVars, graphVars, ingVars, fnVars, regVars>>
    /\ sPc[p] = "closing"
    /\ sOpen' = sOpen \ {sSess[p]}
    /\ sPc' = [sPc EXCEPT ![p] = "done"]
    /\ UNCHANGED <<sSess, sOpened, sLeft, sOut, sNext, sUsers, sPeak>>

\* The caller takes the outcome and is free to call again.
SessionReturn(p) ==
    /\ UNCHANGED <<embVars, vecVars, graphVars, ingVars, fnVars, regVars>>
    /\ sPc[p] = "done"
    /\ sPc' = [sPc EXCEPT ![p] = "idle"]
    /\ sSess' = [sSess EXCEPT ![p] = 0]
    /\ sOpened' = [sOpened EXCEPT ![p] = 0]
    /\ sLeft' = [sLeft EXCEPT ![p] = 0]
    /\ sOut' = [sOut EXCEPT ![p] = "none"]
    /\ UNCHANGED <<sOpen, sNext, sUsers, sPeak>>

(***************************************************************************)
(* Extraction: the normalisation loop of extractGraphComponents over the   *)
(* triples parsed from the model's answer.  nodes is a plain object, so a  *)
(* read nodes[name] also finds what Object.prototype defines; an id is a   *)
(* positive number standing for a fresh UUID.                              *)
(***************************************************************************)
MaxTriples == 2

\* The value of a missing property, and of a property found on Object.prototype.
UndefinedId == 0
InheritedValue == 0 - 1

\* Names that Object.prototype defines for every plain object.
ObjectPrototypeKeys == {"constructor", "toString", "valueOf", "hasOwnProperty", "__proto__"}

\* nodes[name]
nodeLookup(nodes, name) ==
    IF name \in DOMAIN nodes THEN nodes[name]
    ELSE IF name \in ObjectPrototypeKeys THEN InheritedValue
    ELSE UndefinedId

\* if (!nodes[name]) nodes[name] = uuid()
assignId(st, name) ==
    IF nodeLookup(st.nodes, name) = UndefinedId
    THEN [st EXCEPT !.nodes = MergeMap(@, name :> st.uuid), !.uuid = @ + 1]
    ELSE st

\* One pass of the loop body over an entry of parsed.graph.
extractEntry(st, entry) ==
    LET st1 == assignId(st, entry.node)
        st2 == IF entry.target_node # "" THEN assignId(st1, entry.target_node) ELSE st1
    IN IF entry.target_node # "" /\ entry.relationship # ""
       THEN [st2 EXCEPT !.relationships =
                Append(@, [source |-> nodeLookup(st2.nodes, entry.node),
                           target |-> nodeLookup(st2.nodes, entry.target_node),
                           type |-> entry.relationship])]
       ELSE st2

RECURSIVE extractLoop(_, _)
\* for (const entry of parsed.graph) { ... }
extractLoop(st, graph) ==
    IF graph = <<>> THEN st ELSE extractLoop(extractEntry(st, graph[1]), Tail(graph))

\* The { nodes, relationships } returned for the parsed graph.
extractGraphComponents(graph) ==
    LET st == extractLoop([nodes |-> [k \in {} |-> 0], relationships |-> <<>>, uuid |-> 1], graph)
    IN [nodes |-> st.nodes, relationships |-> st.relationships]

\* The triples a model's answer can hold once it passed GraphSchema:
\* three strings, any of them possibly empty.
ExtractedTriples ==
    [node : {"A", "B", "", "constructor"}, target_node : {"A", "B", ""},
     relationship : {"uses", ""}]

\* The answer has been parsed and validated; the loop is about to run.
ExtractReady ==
    /\ fnPc = "ready"
    /\ fnName = "extractGraphComponents"
    /\ fnIn \in SeqsUpTo(ExtractedTriples, MaxTriples)
    /\ fnOut = <<>>
    /\ fnReqs = <<>>
    /\ fnPrev = NoPrevious

\* The loop runs and the function returns.
ExtractNormalize ==
    /\ fnName = "extractGraphComponents"
    /\ FnApply(extractGraphComponents(fnIn))

(***************************************************************************)
(* The whole of extractGraphComponents: one completion request, the        *)
(* content of the answer parsed as JSON and validated by GraphSchema, then *)
(* the normalisation loop.  A JSON value carries its type; a content text  *)
(* is well formed or not, and parses to the value it spells.               *)
(***************************************************************************)
JString(str) == [t |-> "string", v |-> str]
JNumber == [t |-> "number", v |-> "1"]
JNull == [t |-> "null", v |-> ""]
JAbsent == [t |-> "undefined", v |-> ""]

\* An object with (or without) a graph key.
JObject(graph) == [t |-> "object", graph |-> graph]
JArray(items) == [t |-> "array", items |-> items]
NoGraphKey == [t |-> "undefined", items |-> <<>>]
GraphNotArray == [t |-> "string", items |-> <<>>]

\* The text '{}'.
EmptyObjectText == [wellFormed |-> TRUE, value |-> JObject(NoGraphKey)]
MalformedText == [wellFormed |-> FALSE, value |-> JObject(NoGraphKey)]

\* completion.choices[0]?.message?.content ?? '{}'
contentOrDefault(message) == IF message.hasContent THEN message.content ELSE EmptyObjectText

\* JSON.parse(content): the value spelled, or a SyntaxError.
JSONparse(text) ==
    IF text.wellFormed THEN [ok |-> TRUE, value |-> text.value]
    ELSE [ok |-> FALSE, value |-> JObject(NoGraphKey)]

\* z.string()
zStringLax(field) == field.t # "undefined"
zString(field) == field.t = "string"

\* z.object({ node: z.string(), target_node: z.string(), relationship: z.string() })
tripleSchema(entry) ==
    zString(entry.node) /\ zString(entry.target_node) /\ zString(entry.relationship)

\* GraphSchema.parse(value) does not throw.
GraphSchema(value) ==
    /\ value.t = "object"
    /\ value.graph.t = "array"
    /\ \A k \in 1..Len(value.graph.items) : tripleSchema(value.graph.items[k])

\* parsed.graph: the entries as triples of strings.
parsedGraph(value) ==
    [k \in 1..Len(value.graph.items) |->
        [node |-> value.graph.items[k].node.v,
         target_node |-> value.graph.items[k].target_node.v,
         relationship |-> value.graph.items[k].relationship.v]]

\* The entries a model's answer can hold: triples of strings, and entries
\* with a field that is a number, null or missing.
AnswerEntries ==
    [node : {JString("A"), JString("B")}, target_node : {JString("B"), JString("")},
     relationship : {JString("uses"), JString("")}]
    \cup {[node |-> JString("A"), target_node |-> JString("B"), relationship |-> JNumber],
          [node |-> JAbsent, target_node |-> JString("B"), relationship |-> JString("uses")],
          [node |-> JString("A"), target_node |-> JNull, relationship |-> JString("uses")]}

\* What the completion can answer: no choice or no content, a text that is
\* not JSON, an object without graph, a graph that is no array, a graph of entries.
AnswerMessages ==
    {[hasContent |-> FALSE, content |-> EmptyObjectText],
     [hasContent |-> TRUE, content |-> MalformedText],
     [hasContent |-> TRUE, content |-> EmptyObjectText],
     [hasContent |-> TRUE, content |-> [wellFormed |-> TRUE, value |-> JObject(GraphNotArray)]]}
    \cup {[hasContent |-> TRUE, content |-> [wellFormed |-> TRUE, value |-> JObject(JArray(items))]] :
            items \in SeqsUpTo(AnswerEntries, MaxTriples)}

\* extractGraphComponents(raw): up to the await of chatClient.chat.completions.create.
ExtractCall ==
    /\ UNCHANGED <<embVars, vecVars, graphVars, ingVars, sessVars, regVars, fnPrev>>
    /\ fnPc = "idle"
    /\ fnPc' = "await"
    /\ fnName' = "extractGraphComponents"
    /\ fnIn' = <<>>
    /\ fnOut' = Undefined
    /\ fnReqs' = <<"chat.completions.create">>

\* The completion resolves: parse, validate, normalise, return - or throw.
ExtractAnswered(message) ==
    /\ UNCHANGED <<embVars, vecVars, graphVars, ingVars, sessVars, regVars, fnPrev>>
    /\ fnPc = "await" /\ fnName = "extractGraphComponents"
    /\ fnIn' = <<message>>
    /\ LET json == JSONparse(contentOrDefault(message))
       IN IF json.ok /\ GraphSchema(json.value)
          THEN /\ fnPc' = "done"
               /\ fnOut' = extractGraphComponents(parsedGraph(json.value))
          ELSE /\ fnPc' = "failed"
               /\ fnOut' = Undefined
    /\ UNCHANGED <<fnName, fnReqs>>

\* The completion rejects: the rejection leaves extractGraphComponents.
ExtractRejected ==
    /\ UNCHANGED <<embVars, vecVars, graphVars, ingVars, sessVars, regVars, fnPrev>>
    /\ fnPc = "await" /\ fnName = "extractGraphComponents"
    /\ fnPc' = "failed"
    /\ fnOut' = Undefined
    /\ UNCHANGED <<fnName, fnIn, fnReqs>>

\* The caller takes the outcome.
FnReturn ==
    /\ UNCHANGED <<embVars, vecVars, graphVars, ingVars, sessVars, regVars>>
    /\ fnPc \in {"done", "failed"}
    /\ fnPrev' = [name |-> fnName, args |-> fnIn, ok |-> (fnPc = "done")]
    /\ fnPc' = "idle"
    /\ fnName' = "none"
    /\ fnIn' = <<>>
    /\ fnOut' = <<>>
    /\ fnReqs' = <<>>

(***************************************************************************)
(* Retrieval: retrieverSearch embeds the query, searches the collection    *)
(* and expands the ids of the hits in the graph.  The collection ranks by  *)
(* cosine similarity, as ensureCollection creates it.                      *)
(***************************************************************************)
MaxTopK == 2

RECURSIVE dot(_, _)
dot(a, b) == IF Len(a) = 0 THEN 0 ELSE a[1] * b[1] + dot(Tail(a), Tail(b))

\* Point a is at least as similar to q as point b (cosine, vectors without
\* negative components): cos(a, q) >= cos(b, q).
atLeastAsSimilar(a, b, q) ==
    dot(a, q) * dot(a, q) * dot(b, b) >= dot(b, q) * dot(b, q) * dot(a, a)

\* The ids of the points the collection holds.
storedIds(points) == {i \in DOMAIN points : points[i] # NoPoint}

\* client.search(collection, { vector, limit, with_payload: true }): the
\* limit most similar points, most similar first, ties in any order.
searchResults(points, q, limit) ==
    LET P == storedIds(points)
        n == IF Cardinality(P) < limit THEN Cardinality(P) ELSE limit
    IN {h \in [1..n -> P] :
          /\ \A j, k \in 1..n : j < k =>
                 (h[j] # h[k] /\ atLeastAsSimilar(points[h[j]].vector, points[h[k]].vector, q))
          /\ \A k \in 1..n : \A i \in P \ {h[x] : x \in 1..n} :
                 atLeastAsSimilar(points[h[k]].vector, points[i].vector, q)}

\* r.payload?.id of the hit for a stored point.
payloadId(point) ==
    IF point.payload # NoPayload /\ "id" \in DOMAIN point.payload
    THEN JString(point.payload.id) ELSE JAbsent

\* Boolean(value), the test of .filter(Boolean)
BooleanAlways(value) == TRUE
Boolean(value) == value.t \notin {"undefined", "null"} /\ value.v # ""

\* res.map((r) => r.payload?.id).filter(Boolean)
hitIds(points, hits) ==
    LET mapped == [k \in 1..Len(hits) |-> payloadId(points[hits[k]])]
        kept == SelectSeq(mapped, Boolean)
    IN [k \in 1..Len(kept) |-> kept[k].v]

NoLocals == [query |-> "", topK |-> 0, vector |-> <<>>, hits |-> <<>>, ids |-> <<>>]
Request(op, arg) == [op |-> op, arg |-> arg]

\* retrieverSearch(collection, query, topK): up to the await of createEmbeddings([query]).
RetrieverCall(query, topK) ==
    /\ UNCHANGED <<embVars, vecVars, graphVars, ingVars, sessVars, regVars, fnPrev>>
    /\ fnPc = "idle"
    /\ fnPc' = "await_embed"
    /\ fnName' = "retrieverSearch"
    /\ fnIn' = [NoLocals EXCEPT !.query = query, !.topK = topK]
    /\ fnOut' = Undefined
    /\ fnReqs' = <<Request("createEmbeddings", <<query>>)>>

\* const [vector] = ...; the search is sent.
RetrieverEmbedded ==
    /\ UNCHANGED <<embVars, vecVars, graphVars, ingVars, sessVars, regVars, fnPrev>>
    /\ fnPc = "await_embed" /\ fnName = "retrieverSearch"
    /\ fnPc' = "await_search"
    /\ fnIn' = [fnIn EXCEPT !.vector = EmbeddingOf(fnIn.query)]
    /\ fnReqs' = Append(fnReqs, Request("searchTopK",
                            [vector |-> EmbeddingOf(fnIn.query), limit |-> fnIn.topK]))
    /\ UNCHANGED <<fnName, fnOut>>

\* The search answers; the ids are collected and fetchRelatedGraph(ids) is called.
RetrieverSearched(hits) ==
    /\ UNCHANGED <<embVars, vecVars, graphVars, ingVars, sessVars, regVars, fnPrev>>
    /\ fnPc = "await_search" /\ fnName = "retrieverSearch"
    /\ colExists /\ colDim = Len(fnIn.vector)
    /\ hits \in searchResults(colPoints, fnIn.vector, fnIn.topK)
    /\ fnPc' = "await_graph"
    /\ fnIn' = [fnIn EXCEPT !.hits = hits, !.ids = hitIds(colPoints, hits)]
    /\ fnReqs' = Append(fnReqs, Request("fetchRelatedGraph", hitIds(colPoints, hits)))
    /\ UNCHANGED <<fnName, fnOut>>

\* fetchRelatedGraph answers; return { ids, subgraph }.
RetrieverFetched ==
    /\ UNCHANGED <<embVars, vecVars, graphVars, ingVars, sessVars, regVars, fnPrev>>
    /\ fnPc = "await_graph" /\ fnName = "retrieverSearch"
    /\ fnPc' = "done"
    /\ fnOut' = [ids |-> fnIn.ids, subgraph |-> fetchRelatedGraph(gNodes, gEdges, fnIn.ids)]
    /\ UNCHANGED <<fnName, fnIn, fnReqs>>

\* An awaited call rejects (the embedding service, the vector store or the
\* graph store fails): the rejection leaves retrieverSearch.
RetrieverFailed ==
    /\ UNCHANGED <<embVars, vecVars, graphVars, ingVars, sessVars, regVars, fnPrev>>
    /\ fnPc \in {"await_embed", "await_search", "await_graph"} /\ fnName = "retrieverSearch"
    /\ fnPc' = "failed"
    /\ fnOut' = Undefined
    /\ UNCHANGED <<fnName, fnIn, fnReqs>>

(***************************************************************************)
(* Fragments: ingestFragment and ingestFragments write each fragment to    *)
(* the collection and to the graph under one id.  One caller; every await  *)
(* is a step and can reject.                                               *)
(***************************************************************************)
MaxFragments == 2

\* FragmentSchema.parse(fragment): description is a non-empty string.
FragmentSchema(fragment) == fragment.description # ""

\* ensureCollection(collection, d) on a collection, the getCollection
\* response coming in the given shape.
ensureCollectionResult(exists, dim, points, d, shape) ==
    IF ~exists \/ (configuredDim(shape, dim) # 0 /\ configuredDim(shape, dim) # d)
    THEN [exists |-> TRUE, dim |-> d, points |-> [i \in Ids |-> NoPoint]]
    ELSE [exists |-> exists, dim |-> dim, points |-> points]

\* { id, vector: vectors[idx], payload: { id, category, tags } } per item
fragmentUpserts(items, vectors) ==
    [k \in 1..Len(items) |->
        [id |-> items[k].id, vector |-> vectors[k], payload |-> [id |-> items[k].id]]]

NoFragments == [items |-> <<>>, vectors |-> <<>>, idx |-> 0]

\* ingestFragment(collection, id, fragment) / ingestFragments(collection, items)
\* up to the await of createEmbeddings.
FragmentCall(name, items) ==
    /\ UNCHANGED <<embVars, vecVars, graphVars, ingVars, sessVars, regVars, fnPrev>>
    /\ fnPc = "idle"
    /\ name = "ingestFragment" => Len(items) = 1
    /\ fnName' = name
    /\ fnIn' = [NoFragments EXCEPT !.items = items]
    /\ fnOut' = Undefined
    /\ IF name = "ingestFragments" /\ Len(items) = 0
       THEN fnPc' = "done" /\ fnReqs' = <<>>
       ELSE IF \E k \in 1..Len(items) : ~FragmentSchema(items[k])
       THEN fnPc' = "failed" /\ fnReqs' = <<>>
       ELSE /\ fnPc' = "await_embed"
            /\ fnReqs' = <<Request("createEmbeddings",
                                   [k \in 1..Len(items) |-> items[k].description])>>

IsFragmentCall == fnName \in {"ingestFragment", "ingestFragments"}

\* The vectors arrive; ensureCollection(collection, vectors[0].length) is called.
FragmentEmbedded ==
    /\ UNCHANGED <<embVars, vecVars, graphVars, ingVars, sessVars, regVars, fnPrev>>
    /\ IsFragmentCall /\ fnPc = "await_embed"
    /\ fnPc' = "await_ensure"
    /\ fnIn' = [fnIn EXCEPT !.vectors =
                    [k \in 1..Len(fnIn.items) |-> EmbeddingOf(fnIn.items[k].description)]]
    /\ fnReqs' = Append(fnReqs, Request("ensureCollection",
                                        Len(EmbeddingOf(fnIn.items[1].description))))
    /\ UNCHANGED <<fnName, fnOut>>

\* ensureCollection returns; upsertIfMissing(collection, upserts) is called.
FragmentEnsured(shape) ==
    /\ UNCHANGED <<embVars, graphVars, ingVars, sessVars, regVars, fnPrev>>
    /\ IsFragmentCall /\ fnPc = "await_ensure"
    /\ LET r == ensureCollectionResult(colExists, colDim, colPoints, Len(fnIn.vectors[1]), shape)
       IN colExists' = r.exists /\ colDim' = r.dim /\ colPoints' = r.points
    /\ fnPc' = "await_upsert"
    /\ fnReqs' = Append(fnReqs, Request("upsertIfMissing",
                                        fragmentUpserts(fnIn.items, fnIn.vectors)))
    /\ UNCHANGED <<vActive, vPc, vOp, vArg, vItems, vExisting, vErr, vMissing, vOut, vReqs,
                   vPrev, vSnap>>
    /\ UNCHANGED <<fnName, fnIn, fnOut>>

\* upsertIfMissing returns: the items whose id the collection lacks have
\* been written; the loop over the entities starts.
FragmentUpserted ==
    /\ UNCHANGED <<embVars, graphVars, ingVars, sessVars, regVars, fnPrev>>
    /\ IsFragmentCall /\ fnPc = "await_upsert"
    /\ LET upserts == fragmentUpserts(fnIn.items, fnIn.vectors)
           missing == filterMissing(upserts, storedIds(colPoints))
       IN /\ colExists
          /\ Len(missing) > 0 => (vectorsShareDim(missing) /\ storeAcceptsUpsert(toPoints(missing)))
          /\ colPoints' = writePoints(colPoints, toPoints(missing), 1)
    /\ fnPc' = "await_entity"
    /\ fnIn' = [fnIn EXCEPT !.idx = 1]
    /\ fnReqs' = Append(fnReqs, Request("upsertEntity", fnIn.items[1].id))
    /\ UNCHANGED <<colExists, colDim, vActive, vPc, vOp, vArg, vItems, vExisting, vErr,
                   vMissing, vOut, vReqs, vPrev, vSnap>>
    /\ UNCHANGED <<fnName, fnOut>>

\* upsertEntity(id, name, ['Entity', 'Component'], props) returns for the
\* current item; the next item follows, or the call returns.
FragmentEntityMerged ==
    /\ UNCHANGED <<embVars, vecVars, ingVars, sessVars, regVars, fnPrev>>
    /\ IsFragmentCall /\ fnPc = "await_entity"
    /\ LET id == fnIn.items[fnIn.idx].id
           after == mergeEntity(gNodes, id, id, <<"Entity", "Component">>, EmptyMap)
       IN /\ ~(gConstraint /\ violatesUniqueId(after))
          /\ gNodes' = after
    /\ IF fnIn.idx < Len(fnIn.items)
       THEN /\ fnIn' = [fnIn EXCEPT !.idx = @ + 1]
            /\ fnReqs' = Append(fnReqs, Request("upsertEntity", fnIn.items[fnIn.idx + 1].id))
            /\ UNCHANGED <<fnPc, fnOut>>
       ELSE /\ fnPc' = "done"
            /\ fnOut' = "ok"
            /\ UNCHANGED <<fnIn, fnReqs>>
    /\ UNCHANGED <<gEdges, gConstraint, gPc, gTx, gArgs, gLast, gSnap>>
    /\ UNCHANGED fnName

\* An awaited call rejects: the rejection leaves the fragment call, and
\* what was written before stays.
FragmentFailed ==
    /\ UNCHANGED <<embVars, vecVars, graphVars, ingVars, sessVars, regVars, fnPrev>>
    /\ IsFragmentCall
    /\ fnPc \in {"await_embed", "await_ensure", "await_upsert", "await_entity"}
    /\ fnPc' = "failed"
    /\ UNCHANGED <<fnName, fnIn, fnOut, fnReqs>>

(***************************************************************************)
(* Graph context: formatGraphContext over the triples of a subgraph.  A    *)
(* string is the sequence of its characters.                               *)
(***************************************************************************)
MaxSubgraph == 2

\* A part of a triple that is null or undefined.
NoPart == [absent |-> TRUE]

\* nodes.add(name) on a Set kept in insertion order.
pushAlways(set, name) == Append(set, name)
setAdd(set, name) ==
    IF \E k \in 1..Len(set) : set[k] = name THEN set ELSE Append(set, name)

\* `${entity.name} ${relationship.type} ${related.name}`
edgeString(entity, relationship, related) ==
    entity.name \o <<" ">> \o relationship.type \o <<" ">> \o related.name

\* One pass of the loop body.
formatEntry(acc, entry) ==
    IF entry.entity = NoPart \/ entry.related_node = NoPart \/ entry.relationship = NoPart
    THEN acc
    ELSE [nodes |-> setAdd(setAdd(acc.nodes, entry.entity.name), entry.related_node.name),
          edges |-> Append(acc.edges,
                           edgeString(entry.entity, entry.relationship, entry.related_node))]

RECURSIVE formatLoop(_, _)
formatLoop(acc, subgraph) ==
    IF subgraph = <<>> THEN acc ELSE formatLoop(formatEntry(acc, subgraph[1]), Tail(subgraph))

\* formatGraphContext(subgraph): { nodes: Array.from(nodes), edges }
formatGraphContext(subgraph) == formatLoop([nodes |-> <<>>, edges |-> <<>>], subgraph)

\* The triples of a subgraph: named nodes, typed relationships, and parts missing.
SubgraphParts ==
    [entity : {NoPart, [name |-> <<"A">>], [name |-> <<"B">>]},
     related_node : {NoPart, [name |-> <<"A">>], [name |-> <<"B">>]},
     relationship : {NoPart, [type |-> <<"L", "I", "K", "E", "S">>]}]

FormatReady ==
    /\ fnPc = "ready"
    /\ fnName = "formatGraphContext"
    /\ fnIn \in SeqsUpTo(SubgraphParts, MaxSubgraph)
    /\ fnOut = <<>>
    /\ fnReqs = <<>>
    /\ fnPrev = NoPrevious

\* formatGraphContext runs and returns.
FormatContext ==
    /\ fnName = "formatGraphContext"
    /\ FnApply(formatGraphContext(fnIn))

(***************************************************************************)
(* Prompt registry: a Map from kind to prompt, and graphRAGRun, which      *)
(* heads its prompt with the entry of kind "rag".                          *)
(***************************************************************************)
PromptKinds == {"rag", "extract"}
PromptTexts == {"p1", "p2", ""}
DefaultPrompt == "You are an intelligent assistant"

\* Map.prototype.has / get / set / delete / entries on the entries in insertion order.
mapHas(map, kind) == \E k \in 1..Len(map) : map[k].kind = kind
mapGet(map, kind) ==
    IF mapHas(map, kind)
    THEN JString(map[CHOOSE k \in 1..Len(map) : map[k].kind = kind].prompt)
    ELSE JAbsent
mapSetAppend(map, kind, prompt) == Append(map, [kind |-> kind, prompt |-> prompt])
mapSet(map, kind, prompt) ==
    IF mapHas(map, kind)
    THEN [k \in 1..Len(map) |->
            IF map[k].kind = kind THEN [kind |-> kind, prompt |-> prompt] ELSE map[k]]
    ELSE Append(map, [kind |-> kind, prompt |-> prompt])
mapDelete(map, kind) == SelectSeq(map, LAMBDA e : e.kind # kind)

\* value ?? fallback
nullish(value, fallback) == IF value.t \in {"undefined", "null"} THEN fallback ELSE value

NoRegistryOp ==
    [name |-> "none", kind |-> "", value |-> JAbsent, list |-> <<>>, deleted |-> FALSE,
     before |-> <<>>]

RegInit ==
    /\ promptRegistry = <<>>
    /\ regOp = NoRegistryOp
    /\ regLatest = [kind \in PromptKinds |-> JAbsent]
    /\ ragSeen = JAbsent

\* setPrompt(kind, prompt)
SetPrompt(kind, prompt) ==
    /\ UNCHANGED <<embVars, vecVars, graphVars, ingVars, fnVars, sessVars, ragSeen>>
    /\ promptRegistry' = mapSet(promptRegistry, kind, prompt)
    /\ regOp' = [NoRegistryOp EXCEPT !.name = "setPrompt", !.kind = kind,
                                     !.before = promptRegistry]
    /\ regLatest' = [regLatest EXCEPT ![kind] = JString(prompt)]

\* getPrompt(kind)
GetPrompt(kind) ==
    /\ UNCHANGED <<embVars, vecVars, graphVars, ingVars, fnVars, sessVars, ragSeen>>
    /\ regOp' = [NoRegistryOp EXCEPT !.name = "getPrompt", !.kind = kind,
                                     !.value = mapGet(promptRegistry, kind),
                                     !.before = promptRegistry]
    /\ UNCHANGED <<promptRegistry, regLatest>>

\* listPrompts()
ListPrompts ==
    /\ UNCHANGED <<embVars, vecVars, graphVars, ingVars, fnVars, sessVars, ragSeen>>
    /\ regOp' = [NoRegistryOp EXCEPT !.name = "listPrompts",
                                     !.list = [k \in 1..Len(promptRegistry) |->
                                                 [kind |-> promptRegistry[k].kind,
                                                  prompt |-> promptRegistry[k].prompt]],
                                     !.before = promptRegistry]
    /\ UNCHANGED <<promptRegistry, regLatest>>

\* deletePrompt(kind)
DeletePrompt(kind) ==
    /\ UNCHANGED <<embVars, vecVars, graphVars, ingVars, fnVars, sessVars, ragSeen>>
    /\ promptRegistry' = mapDelete(promptRegistry, kind)
    /\ regOp' = [NoRegistryOp EXCEPT !.name = "deletePrompt", !.kind = kind,
                                     !.deleted = mapHas(promptRegistry, kind),
                                     !.before = promptRegistry]
    /\ regLatest' = [regLatest EXCEPT ![kind] = JAbsent]

\* graphRAGRun(graphContext, userQuery), up to the await of the completion:
\* the user message is the header, the nodes, the edges and the query, set
\* in a fixed template.
RagCall(graphContext, userQuery) ==
    /\ UNCHANGED <<embVars, vecVars, graphVars, ingVars, sessVars, fnPrev>>
    /\ fnPc = "idle"
    /\ fnPc' = "await"
    /\ fnName' = "graphRAGRun"
    /\ fnIn' = <<graphContext, userQuery>>
    /\ fnOut' = Undefined
    /\ fnReqs' = <<[header |-> nullish(mapGet(promptRegistry, "rag"),
                                       JString(DefaultPrompt)).v,
                    nodes |-> graphContext.nodes,
                    edges |-> graphContext.edges,
                    query |-> userQuery]>>
    /\ ragSeen' = regLatest["rag"]
    /\ UNCHANGED <<promptRegistry, regOp, regLatest>>

\* The completion resolves: the content of the first choice, or ''.
RagAnswered(message) ==
    /\ UNCHANGED <<embVars, vecVars, graphVars, ingVars, sessVars, regVars, fnPrev>>
    /\ fnPc = "await" /\ fnName = "graphRAGRun"
    /\ fnPc' = "done"
    /\ fnOut' = nullish(message, JString("")).v
    /\ UNCHANGED <<fnName, fnIn, fnReqs>>

\* The completion rejects: the rejection leaves graphRAGRun.
RagRejected ==
    /\ UNCHANGED <<embVars, vecVars, graphVars, ingVars, sessVars, regVars, fnPrev>>
    /\ fnPc = "await" /\ fnName = "graphRAGRun"
    /\ fnPc' = "failed"
    /\ fnOut' = Undefined
    /\ UNCHANGED <<fnName, fnIn, fnReqs>>

(***************************************************************************)
(* Application layer: ingest(request).  The call is followed through the   *)
(* sub-calls it awaits one after the other; each sub-call sends requests   *)
(* of one kind (embedding service, vector store, graph store).             *)
(***************************************************************************)
MaxReqItems == 1

\* z.string().min(1)
nonEmptyString(x) == x # ""

\* QdrantItemSchema, ComponentSchema, RelationshipSchema
QdrantItemSchema(it) == nonEmptyString(it.id) /\ nonEmptyString(it.description)
ComponentSchema(c) == nonEmptyString(c.id) /\ nonEmptyString(c.name)
RelationshipSchema(r) ==
    nonEmptyString(r.sourceId) /\ nonEmptyString(r.targetId) /\ nonEmptyString(r.type)

\* IngestRequestSchema.safeParse(request).success
IngestRequestSchema(req) ==
    /\ nonEmptyString(req.collection)
    /\ \A k \in 1..Len(req.qdrant) : QdrantItemSchema(req.qdrant[k])
    /\ \A k \in 1..Len(req.components) : ComponentSchema(req.components[k])
    /\ \A k \in 1..Len(req.relationships) : RelationshipSchema(req.relationships[k])

\* The requests callers pass; an optional list that is absent is the empty list.
IngestRequests ==
    [collection : {"c", ""},
     qdrant : SeqsUpTo({[id |-> "a", description |-> "d"], [id |-> "", description |-> "d"],
                        [id |-> "a", description |-> ""]}, MaxReqItems),
     components : SeqsUpTo({[id |-> "e1", name |-> "A"], [id |-> "", name |-> "A"]}, MaxReqItems),
     relationships : SeqsUpTo({[sourceId |-> "e1", targetId |-> "e1", type |-> "T1"],
                               [sourceId |-> "e1", targetId |-> "e1", type |-> ""]}, MaxReqItems)]

SubCall(op, kind) == [op |-> op, kind |-> kind]

\* ingestQdrantItems(collection, items): createEmbeddings, then upsertIfMissing.
ingestQdrantItemsCalls(items) ==
    IF Len(items) = 0 THEN <<>>
    ELSE <<SubCall("createEmbeddings", "embedding"), SubCall("upsertIfMissing", "vector")>>

\* ingestComponentsToNeo4j(components, relationships): the constraint, one
\* upsertEntity per component, one upsertRelationship per relationship.
ingestComponentsToNeo4jCalls(components, relationships) ==
    <<SubCall("ensureUniqueIdConstraint", "graph")>>
    \o [k \in 1..Len(components) |-> SubCall("upsertEntity", "graph")]
    \o [k \in 1..Len(relationships) |-> SubCall("upsertRelationship", "graph")]

\* ingest(request): the sub-calls it awaits, in order.
ingestCalls(req) ==
    (IF Len(req.qdrant) > 0 THEN ingestQdrantItemsCalls(req.qdrant) ELSE <<>>)
    \o (IF Len(req.components) > 0
        THEN ingestComponentsToNeo4jCalls(req.components, req.relationships) ELSE <<>>)

NoRequest == [collection |-> "", qdrant |-> <<>>, components |-> <<>>, relationships |-> <<>>]

IngestIdle ==
    /\ iPc = "idle"
    /\ iReq = NoRequest
    /\ iIdx = 0
    /\ iLog = <<>>
    /\ iOut = "none"

AppInit == IngestIdle /\ FnIdle /\ SessInit /\ RegInit


\* The call reaches sub-call k of its list: it is made and awaited, or the
\* list is exhausted and the call returns.
IngestGoTo(req, k) ==
    /\ iIdx' = k
    /\ IF k <= Len(ingestCalls(req))
       THEN /\ iPc' = "await"
            /\ iLog' = SubSeq(ingestCalls(req), 1, k)
            /\ iOut' = "none"
       ELSE /\ iPc' = "done"
            /\ iLog' = SubSeq(ingestCalls(req), 1, k - 1)
            /\ iOut' = "ok"

\* ingest(request) up to its first await.
IngestCall(req) ==
    /\ UNCHANGED <<embVars, vecVars, graphVars, fnVars, sessVars, regVars>>
    /\ iPc = "idle"
    /\ iReq' = req
    /\ IngestGoTo(req, 1)

\* The awaited sub-call resolves.
IngestStepOk ==
    /\ UNCHANGED <<embVars, vecVars, graphVars, fnVars, sessVars, regVars>>
    /\ iPc = "await"
    /\ UNCHANGED iReq
    /\ IngestGoTo(iReq, iIdx + 1)

\* The awaited sub-call rejects: the error propagates out of ingest.
IngestStepFail ==
    /\ UNCHANGED <<embVars, vecVars, graphVars, fnVars, sessVars, regVars>>
    /\ iPc = "await"
    /\ iPc' = "failed"
    /\ iOut' = "error"
    /\ UNCHANGED <<iReq, iIdx, iLog>>

\* The caller has seen the outcome and may call again.
IngestSettle ==
    /\ UNCHANGED <<embVars, vecVars, graphVars, fnVars, sessVars, regVars>>
    /\ iPc \in {"done", "failed"}
    /\ iPc' = "idle"
    /\ iReq' = NoRequest
    /\ iIdx' = 0
    /\ iLog' = <<>>
    /\ iOut' = "none"

(***************************************************************************)
(* Specifications                                                          *)
(***************************************************************************)
\* The embedding batcher alone.
EmbedInit == EmbInit /\ VecInit({"p1"}, FALSE) /\ GraphInit /\ AppInit
SpecEmbed == EmbedInit /\ [][EmbNext]_vars

\* The vector store manager with one caller: no other writer.
VecNext ==
    \/ \E p \in Procs, d \in Dims : EnsureCollectionCall(p, d)
    \/ \E p \in Procs : EnsureCollectionGot(p)
    \/ \E p \in Procs : EnsureCollectionGetFailed(p)
    \/ \E p \in Procs : EnsureCollectionDeleted(p)
    \/ \E p \in Procs : EnsureCollectionCreated(p)
    \/ \E p \in Procs, items \in SeqsUpTo(ItemPool, MaxItems) : UpsertVectorsCall(p, items)
    \/ \E p \in Procs, items \in SeqsUpTo(ItemPool, MaxItems) : UpsertIfMissingCall(p, items)
    \/ \E p \in Procs : UpsertIfMissingRetrieved(p)
    \/ \E p \in Procs : UpsertAnswered(p)
VecSeqInit == EmbInit /\ VecInit({"p1"}, FALSE) /\ GraphInit /\ AppInit
SpecVec == VecSeqInit /\ [][VecNext]_vars

\* Concurrent callers of upsertIfMissing on an existing collection.
VecConcNext ==
    \/ \E p \in Procs, items \in SeqsUpTo(ItemPool, MaxConcItems) : UpsertIfMissingCall(p, items)
    \/ \E p \in Procs : UpsertIfMissingRetrieved(p)
    \/ \E p \in Procs : UpsertAnswered(p)
VecConcInit == EmbInit /\ VecInit(Procs, TRUE) /\ GraphInit /\ AppInit
SpecVecConc == VecConcInit /\ [][VecConcNext]_vars

\* apoc.merge.node(row.labels, {id: row.id}, {name: row.name}, row.props) for one row:
\* the name is set on create, the props are set on match.
bulkMergeNode(nodes, row) ==
    LET L == {sanitizeLabel(row.labels[k]) : k \in 1..Len(row.labels)}
        M == matchNodes(nodes, L, row.id)
    IN IF M = {}
       THEN Append(nodes, [labels |-> L, props |-> MergeMap(("id" :> row.id), ("name" :> row.name))])
       ELSE [i \in 1..Len(nodes) |->
                IF i \in M THEN [nodes[i] EXCEPT !.props = MergeMap(@, row.props)]
                ELSE nodes[i]]

RECURSIVE bulkMergeNodes(_, _)
\* UNWIND $rows AS row CALL apoc.merge.node(...)
bulkMergeNodes(nodes, rows) ==
    IF rows = <<>> THEN nodes
    ELSE bulkMergeNodes(bulkMergeNode(nodes, rows[1]), Tail(rows))

RECURSIVE bulkMergeRels(_, _, _)
\* UNWIND $rows AS row MATCH (a:Entity), (b:Entity) MERGE ... SET r += coalesce(row.props, {})
bulkMergeRels(nodes, edges, rows) ==
    IF rows = <<>> THEN edges
    ELSE bulkMergeRels(nodes,
                       mergeRelationship(nodes, edges, rows[1].sourceId, rows[1].targetId,
                                         rows[1].type, rows[1].props),
                       Tail(rows))

\* What a write transaction that threw leaves in the store, were its
\* statements committed one by one.
rolledBackKeepingWrites(committed, tx) == tx

\* What a write transaction that threw leaves in the store: executeWrite rolls back.
rolledBack(committed, tx) == committed

\* ingestBulkTransactional(nodes, relationships): the session is opened and
\* executeWrite begins the transaction.
BulkCall(nodes, rels) ==
    /\ UNCHANGED <<embVars, vecVars, appVars>>
    /\ gPc = "idle"
    /\ gArgs' = [nodes |-> nodes, rels |-> rels]
    /\ gSnap' = GraphNow
    /\ gTx' = GraphNow
    /\ gPc' = "tx_nodes"
    /\ gLast' = [NoGraphCall EXCEPT !.op = "ingestBulkTransactional", !.status = "running",
                    !.nodes = nodes, !.rels = rels]
    /\ UNCHANGED <<gNodes, gEdges, gConstraint>>

\* The transaction throws: rollback, session.close(), the error propagates.
BulkAbort ==
    /\ gNodes' = rolledBack(GraphNow, gTx).nodes
    /\ gEdges' = rolledBack(GraphNow, gTx).edges
    /\ gPc' = "settled"
    /\ gLast' = [gLast EXCEPT !.status = "error"]
    /\ UNCHANGED <<gConstraint, gArgs, gSnap>>

\* if (nodes.length) await tx.run(UNWIND ... apoc.merge.node ...)
BulkNodesRun ==
    /\ UNCHANGED <<embVars, vecVars, appVars>>
    /\ gPc = "tx_nodes"
    /\ LET after == IF Len(gArgs.nodes) > 0 THEN bulkMergeNodes(gTx.nodes, gArgs.nodes)
                    ELSE gTx.nodes
       IN IF gConstraint /\ violatesUniqueId(after)
          THEN /\ gTx' = [gTx EXCEPT !.nodes = after]
               /\ BulkAbort
          ELSE /\ gTx' = [gTx EXCEPT !.nodes = after]
               /\ gPc' = "tx_rels"
               /\ UNCHANGED <<gNodes, gEdges, gConstraint, gArgs, gLast, gSnap>>

\* The node statement is rejected by the store.
BulkNodesFail ==
    /\ UNCHANGED <<embVars, vecVars, appVars>>
    /\ gPc = "tx_nodes"
    /\ Len(gArgs.nodes) > 0
    /\ UNCHANGED gTx
    /\ BulkAbort

\* if (relationships.length) await tx.run(UNWIND ... MERGE (a)-[r:RELATIONSHIP]->(b) ...)
BulkRelsRun ==
    /\ UNCHANGED <<embVars, vecVars, appVars>>
    /\ gPc = "tx_rels"
    /\ gTx' = [gTx EXCEPT !.edges = IF Len(gArgs.rels) > 0
                                    THEN bulkMergeRels(gTx.nodes, gTx.edges, gArgs.rels)
                                    ELSE gTx.edges]
    /\ gPc' = "tx_commit"
    /\ UNCHANGED <<gNodes, gEdges, gConstraint, gArgs, gLast, gSnap>>

\* The relationship statement is rejected by the store.
BulkRelsFail ==
    /\ UNCHANGED <<embVars, vecVars, appVars>>
    /\ gPc = "tx_rels"
    /\ Len(gArgs.rels) > 0
    /\ UNCHANGED gTx
    /\ BulkAbort

\* The work function returned: executeWrite commits, the session is closed.
BulkCommit ==
    /\ UNCHANGED <<embVars, vecVars, appVars>>
    /\ gPc = "tx_commit"
    /\ gNodes' = gTx.nodes
    /\ gEdges' = gTx.edges
    /\ gPc' = "settled"
    /\ gLast' = [gLast EXCEPT !.status = "ok"]
    /\ UNCHANGED <<gConstraint, gTx, gArgs, gSnap>>

\* The commit is rejected by the store.
BulkCommitFail ==
    /\ UNCHANGED <<embVars, vecVars, appVars>>
    /\ gPc = "tx_commit"
    /\ UNCHANGED gTx
    /\ BulkAbort

\* The label lists, node property maps and edge property maps callers pass.
EntityLabelLists == {<<"Entity">>, <<"Entity", "Component">>, <<"Component">>}
EntityProps == {EmptyMap, ("category" :> "hero"), ("name" :> "B"), ("id" :> "e2")}
RelProps == {EmptyMap, ("w" :> "1"), ("w" :> "2"), ("type" :> "T2")}

\* upsertEntity calls with any names, label lists and property maps, one at a time.
GraphNext ==
    \/ \E id \in EntityIds, name \in Names, labels \in EntityLabelLists, props \in EntityProps :
           UpsertEntity(id, name, labels, props)
    \/ EnsureUniqueIdConstraint
    \/ GraphSettle
GraphSeqInit == EmbInit /\ VecInit({"p1"}, FALSE) /\ GraphInit /\ AppInit
SpecGraph == GraphSeqInit /\ [][GraphNext]_vars

\* upsertRelationship calls with any property maps, between entities that
\* upsertEntity created.
GraphRelNext ==
    \/ \E id \in EntityIds, labels \in {<<"Entity">>, <<"Entity", "Component">>} :
           UpsertEntity(id, "A", labels, EmptyMap)
    \/ \E source \in EntityIds, target \in EntityIds, type \in RelTypes, props \in RelProps :
           UpsertRelationship(source, target, type, props)
    \/ GraphSettle
SpecGraphRel == GraphSeqInit /\ [][GraphRelNext]_vars

\* upsertRelationship calls between ids that name an Entity node, a node of
\* another label, or no node.
GraphFrameNext ==
    \/ \E id \in EntityIds, labels \in {<<"Entity">>, <<"Component">>} :
           UpsertEntity(id, "A", labels, EmptyMap)
    \/ \E source \in EntityIds, target \in EntityIds, props \in {EmptyMap, ("w" :> "1")} :
           UpsertRelationship(source, target, "T1", props)
    \/ GraphSettle
SpecGraphFrame == GraphSeqInit /\ [][GraphFrameNext]_vars

\* Reads of the neighbourhood of seed ids, over graphs that upsertEntity and
\* upsertRelationship built.
MaxSeeds == 2

FetchNext ==
    \/ \E id \in EntityIds, name \in Names : UpsertEntity(id, name, <<"Entity">>, EmptyMap)
    \/ \E source \in EntityIds, target \in EntityIds, type \in RelTypes :
           UpsertRelationship(source, target, type, EmptyMap)
    \/ \E ids \in SeqsUpTo(EntityIds, MaxSeeds) : FetchRelatedGraph(ids)
    \/ GraphSettle
SpecFetch == GraphSeqInit /\ [][FetchNext]_vars

\* The node rows and relationship rows of bulk batches.
BulkNodeRows ==
    { [id |-> "e1", name |-> "A", labels |-> <<"Entity">>, props |-> EmptyMap],
      [id |-> "e1", name |-> "B", labels |-> <<"Entity", "Component">>, props |-> EmptyMap],
      [id |-> "e2", name |-> "B", labels |-> <<"Entity", "Component">>,
       props |-> ("category" :> "hero")] }
BulkRelRows ==
    { [sourceId |-> "e1", targetId |-> "e2", type |-> "T1", props |-> ("w" :> "1")] }

\* ingestBulkTransactional calls, one at a time, each statement a step.
BulkNext ==
    \/ \E nodes \in SeqsUpTo(BulkNodeRows, MaxBulk), rels \in SeqsUpTo(BulkRelRows, MaxBulk) :
           BulkCall(nodes, rels)
    \/ BulkNodesRun
    \/ BulkNodesFail
    \/ BulkRelsRun
    \/ BulkRelsFail
    \/ BulkCommit
    \/ BulkCommitFail
    \/ GraphSettle
\* The uniqueness constraint on (:Entity {id}) has been installed on the empty graph.
BulkInit ==
    /\ EmbInit /\ VecInit({"p1"}, FALSE)
    /\ gNodes = <<>> /\ gEdges = <<>> /\ gConstraint = TRUE /\ gPc = "idle"
    /\ gTx = [nodes |-> <<>>, edges |-> <<>>] /\ gArgs = [nodes |-> <<>>, rels |-> <<>>]
    /\ gLast = NoGraphCall /\ gSnap = [nodes |-> <<>>, edges |-> <<>>]
    /\ AppInit
SpecBulk == BulkInit /\ [][BulkNext]_vars

\* The ids and vectors callers pass to the point-write operations, valid and not.
CheckedIds == {"a", ""}
CheckedVectors == {V3a, <<1, NaN, 1>>, <<1, NonNumeric, 1>>}
CheckedItemPool == [id : CheckedIds, vector : CheckedVectors, payload : {NoPayload}]

MaxChecked == 2

\* The point-write operations on an existing collection, one caller.
VecValidNext ==
    \/ \E p \in Procs, ids \in SeqsUpTo(CheckedIds, MaxChecked),
          vectors \in SeqsUpTo(CheckedVectors, MaxChecked) : UpsertEmbeddingsCall(p, ids, vectors)
    \/ \E p \in Procs, items \in SeqsUpTo(CheckedItemPool, MaxChecked) : UpsertVectorsCall(p, items)
    \/ \E p \in Procs, items \in SeqsUpTo(CheckedItemPool, MaxChecked) : UpsertIfMissingCall(p, items)
    \/ \E p \in Procs : UpsertIfMissingRetrieved(p)
    \/ \E p \in Procs : UpsertAnswered(p)
VecValidInit == EmbInit /\ VecInit({"p1"}, TRUE) /\ GraphInit /\ AppInit
SpecVecValid == VecValidInit /\ [][VecValidNext]_vars

\* The query builders, each applied once to the labels drawn.
QueryNext == BuildQuery
QueryInit ==
    /\ EmbInit /\ VecInit({"p1"}, FALSE) /\ GraphInit
    /\ IngestIdle /\ QueryReady /\ SessInit /\ RegInit
SpecQuery == QueryInit /\ [][QueryNext]_vars

\* Graph operations of two concurrent callers, as far as sessions go.
SessionNext ==
    \/ \E p \in Callers, op \in SessionOps : \E n \in awaitsOf(op) : SessionCall(p, op, n)
    \/ \E p \in Callers : SessionRunOk(p)
    \/ \E p \in Callers : SessionRunFail(p)
    \/ \E p \in Callers : SessionClosed(p)
    \/ \E p \in Callers : SessionReturn(p)
SessionInit == EmbInit /\ VecInit({"p1"}, FALSE) /\ GraphInit /\ AppInit
SpecSession == SessionInit /\ [][SessionNext]_vars

\* extractGraphComponents applied once to the triples drawn.
ExtractNext == ExtractNormalize
ExtractInit ==
    /\ EmbInit /\ VecInit({"p1"}, FALSE) /\ GraphInit
    /\ IngestIdle /\ ExtractReady /\ SessInit /\ RegInit
SpecExtract == ExtractInit /\ [][ExtractNext]_vars

\* A call of extractGraphComponents with any answer of the model.  The
\* function keeps nothing from one call to the next, so one call followed to
\* its return covers them all.
FirstExtractCall == fnPrev = NoPrevious /\ ExtractCall

ExtractCallNext ==
    \/ FirstExtractCall
    \/ \E message \in AnswerMessages : ExtractAnswered(message)
    \/ ExtractRejected
    \/ FnReturn
ExtractCallInit == EmbInit /\ VecInit({"p1"}, FALSE) /\ GraphInit /\ AppInit
SpecExtractCall == ExtractCallInit /\ [][ExtractCallNext]_vars

\* The points a collection of dimension 2 can hold under an id: written
\* with the payload { id } that the write paths default to, with a payload
\* of the caller's that has no id, or with an empty id in the payload.
PriorPoints(i) ==
    {NoPoint} \cup [vector : {<<1, 0>>, <<0, 1>>},
                    payload : {[id |-> i], [category |-> "hero"], [id |-> ""]}]

\* The graphs found before a call: empty, or two entities and a relationship.
PriorGraphs ==
    {[nodes |-> <<>>, edges |-> <<>>],
     [nodes |-> <<[labels |-> {"Entity"}, props |-> ("id" :> "a") @@ ("name" :> "A")],
                  [labels |-> {"Entity"}, props |-> ("id" :> "b") @@ ("name" :> "B")]>>,
      edges |-> <<[src |-> 1, dst |-> 2, props |-> ("type" :> "T1")]>>]}

\* Any collection and graph that earlier calls can have left.
PriorInit ==
    /\ EmbInit
    /\ colExists \in BOOLEAN
    /\ colDim \in (IF colExists THEN {2, 3} ELSE {0})
    /\ colPoints \in [Ids -> UNION {PriorPoints(i) : i \in Ids}]
    /\ \A i \in Ids : colPoints[i] \in (IF colDim = 2 THEN PriorPoints(i) ELSE {NoPoint})
    /\ VecCallersIdle({"p1"})
    /\ \E g \in PriorGraphs : gNodes = g.nodes /\ gEdges = g.edges
    /\ gConstraint = FALSE /\ gPc = "idle"
    /\ gTx = [nodes |-> <<>>, edges |-> <<>>] /\ gArgs = [nodes |-> <<>>, rels |-> <<>>]
    /\ gLast = NoGraphCall /\ gSnap = [nodes |-> <<>>, edges |-> <<>>]
    /\ AppInit

\* retrieverSearch calls, one at a time, over any collection and graph.
RetrieveNext ==
    \/ \E query \in Texts, topK \in 1..MaxTopK : RetrieverCall(query, topK)
    \/ RetrieverEmbedded
    \/ \E hits \in SeqsUpTo(Ids, MaxTopK) : RetrieverSearched(hits)
    \/ RetrieverFetched
    \/ RetrieverFailed
    \/ FnReturn
SpecRetrieve == PriorInit /\ [][RetrieveNext]_vars

\* The fragments callers pass: an id and a description (empty: invalid).
FragmentItems == [id : Ids, description : {"t1", ""}]

\* The first call made on the collection and graph found.
FirstFragmentCall(name, items) == fnPrev = NoPrevious /\ FragmentCall(name, items)

\* A search right after an ingestFragment that returned.
RoundTripCall(query, topK) == fnPrev.name = "ingestFragment" /\ RetrieverCall(query, topK)

\* One fragment ingestion over any collection and graph that earlier calls
\* left, and a retrieval after it.
FragmentNext ==
    \/ \E name \in {"ingestFragment", "ingestFragments"} :
          \E items \in SeqsUpTo(FragmentItems, MaxFragments) : FirstFragmentCall(name, items)
    \/ FragmentEmbedded
    \/ \E shape \in ResponseShapes : FragmentEnsured(shape)
    \/ FragmentUpserted
    \/ FragmentEntityMerged
    \/ FragmentFailed
    \/ \E query \in {"t1", "t2"}, topK \in 1..MaxTopK : RoundTripCall(query, topK)
    \/ RetrieverEmbedded
    \/ \E hits \in SeqsUpTo(Ids, MaxTopK) : RetrieverSearched(hits)
    \/ RetrieverFetched
    \/ RetrieverFailed
    \/ FnReturn
SpecFragment == PriorInit /\ [][FragmentNext]_vars

\* formatGraphContext applied once to the subgraph drawn.
FormatNext == FormatContext
FormatInit ==
    /\ EmbInit /\ VecInit({"p1"}, FALSE) /\ GraphInit
    /\ IngestIdle /\ FormatReady /\ SessInit /\ RegInit
SpecFormat == FormatInit /\ [][FormatNext]_vars

\* Registry operations in any order, around graphRAGRun calls.
PromptNext ==
    \/ \E kind \in PromptKinds, prompt \in PromptTexts : SetPrompt(kind, prompt)
    \/ \E kind \in PromptKinds : GetPrompt(kind)
    \/ ListPrompts
    \/ \E kind \in PromptKinds : DeletePrompt(kind)
    \/ RagCall(formatGraphContext(<<>>), "q1")
    \/ \E message \in {JString("a1"), JAbsent} : RagAnswered(message)
    \/ RagRejected
    \/ FnReturn
PromptInit == EmbInit /\ VecInit({"p1"}, FALSE) /\ GraphInit /\ AppInit
SpecPrompt == PromptInit /\ [][PromptNext]_vars

\* ingest(request) calls, one at a time.
IngestNext ==
    \/ \E req \in IngestRequests : IngestCall(req)
    \/ IngestStepOk
    \/ IngestStepFail
    \/ IngestSettle
IngestInit == EmbInit /\ VecInit({"p1"}, TRUE) /\ GraphInit /\ AppInit
SpecIngest == IngestInit /\ [][IngestNext]_vars

(***************************************************************************)
(* Properties of the embedding batcher                                     *)
(***************************************************************************)
\* C1: when a createEmbeddings call over N >= 1 texts returns (every request
\* succeeded, the service answered one vector per input in request order),
\* the result has exactly N vectors and position i holds the embedding of
\* text i, whatever the batches were.
C1_OrderPreserved ==
    (embPc = "done" /\ Len(embTexts) > 0) =>
        /\ Len(embResult) = Len(embTexts)
        /\ \A i \in 1..Len(embTexts) : embResult[i] = EmbeddingOf(embTexts[i])

\* A call over three texts, not all alike, that went out in several batches has returned.
C1_Witness ==
    /\ embPc = "done"
    /\ Len(embTexts) = 3
    /\ Len(embBatches) >= 2
    /\ embTexts[1] # embTexts[3]
    /\ Len(embBatches[1].indices) = 2

BatchTokens(b) == SumSeq([k \in 1..Len(b.indices) |-> embTokens[embTexts[b.indices[k]]]])

\* C2: every batch of more than one text totals at most MAX_TOKENS_PER_BATCH
\* tokens, and a text whose own count exceeds the budget is alone in its batch.
C2_BudgetRespected ==
    \A k \in 1..Len(embBatches) :
        LET b == embBatches[k]
        IN /\ Len(b.indices) > 1 => BatchTokens(b) <= MAX_TOKENS_PER_BATCH
           /\ \A j \in 1..Len(b.indices) :
                 embTokens[embTexts[b.indices[j]]] > MAX_TOKENS_PER_BATCH
                     => Len(b.indices) = 1

\* Batches were built where one holds two texts filling the budget exactly
\* and another holds an oversized text.
C2_Witness ==
    /\ embPc = "loop"
    /\ \E k \in 1..Len(embBatches) :
          /\ Len(embBatches[k].indices) = 2
          /\ BatchTokens(embBatches[k]) = MAX_TOKENS_PER_BATCH
    /\ \E k \in 1..Len(embBatches) :
          BatchTokens(embBatches[k]) > MAX_TOKENS_PER_BATCH

RECURSIVE Flatten(_)
Flatten(seqs) == IF seqs = <<>> THEN <<>> ELSE seqs[1] \o Flatten(Tail(seqs))

TokensAt(i) == embTokens[embTexts[i]]

\* C27: the batches are consecutive runs of the input in input order, every
\* index is in exactly one batch, and a batch ends only where the next text
\* would push it over the budget or where a text is itself oversized; token
\* counts [3000, 3000, 3000] give exactly the batches [[t1,t2],[t3]].
C27_GreedyRuns ==
    (embPc # "idle" /\ Len(embTexts) > 0) =>
        /\ Flatten([k \in 1..Len(embBatches) |-> embBatches[k].indices])
              = [i \in 1..Len(embTexts) |-> i]
        /\ \A k \in 1..Len(embBatches) :
              LET b == embBatches[k]
              IN /\ Len(b.indices) > 0
                 /\ b.inputs = [j \in 1..Len(b.indices) |-> embTexts[b.indices[j]]]
                 /\ k < Len(embBatches) =>
                       LET next == embBatches[k + 1].indices[1]
                       IN \/ BatchTokens(b) + TokensAt(next) > MAX_TOKENS_PER_BATCH
                          \/ TokensAt(next) > MAX_TOKENS_PER_BATCH
                          \/ TokensAt(b.indices[1]) > MAX_TOKENS_PER_BATCH
        /\ (embTexts = <<"t1", "t2", "t3">> /\ \A t \in Texts : embTokens[t] = 3000) =>
              embBatches = <<[indices |-> <<1, 2>>, inputs |-> <<"t1", "t2">>],
                             [indices |-> <<3>>, inputs |-> <<"t3">>]>>

\* Three texts of 3000 tokens each were packed into two batches.
C27_Witness ==
    /\ embPc = "loop"
    /\ embTexts = <<"t1", "t2", "t3">>
    /\ \A t \in Texts : embTokens[t] = 3000
    /\ Len(embBatches) = 2

\* C28: when upsertIfMissing succeeds, inserted + skipped is the number of
\* items, skipped is the number of items whose id the retrieve reported
\* present, and one upsert is sent exactly when inserted > 0, holding the
\* items reported absent, in input order.
C28_CountsAndRequest ==
    \A p \in Procs :
        (vOp[p] = "upsertIfMissing" /\ vPc[p] = "done" /\ vOut[p].status = "ok") =>
            LET items == vItems[p]
                absent == SelectSeq(items, LAMBDA it : it.id \notin vExisting[p])
                upserts == SelectSeq(vReqs[p], LAMBDA r : r.kind = "upsert")
            IN /\ vOut[p].inserted + vOut[p].skipped = Len(items)
               /\ vOut[p].skipped
                     = Cardinality({k \in 1..Len(items) : items[k].id \in vExisting[p]})
               /\ Len(upserts) = IF vOut[p].inserted > 0 THEN 1 ELSE 0
               /\ vOut[p].inserted > 0 =>
                     /\ Len(upserts[1].arg) = Len(absent)
                     /\ \A k \in 1..Len(absent) :
                           /\ upserts[1].arg[k].id = absent[k].id
                           /\ upserts[1].arg[k].vector = absent[k].vector

\* A call over two absent items with different ids has inserted both.
C28_Witness ==
    /\ vOp["p1"] = "upsertIfMissing" /\ vPc["p1"] = "done" /\ vOut["p1"].status = "ok"
    /\ Len(vItems["p1"]) = 2 /\ vItems["p1"][1].id # vItems["p1"][2].id
    /\ vOut["p1"].inserted = 2

\* C13: every batch is requested at most once (a rejected batch is not
\* tried again), and when a request has rejected the call has failed: it
\* returns no vectors, not even those of the batches already answered, and
\* no request for a later batch is or will be sent.
C13_FailureAborts ==
    /\ Len(embLog) <= embIdx
    /\ embPc = "failed" =>
          /\ embResult = Undefined
          /\ embInFlight = 0
          /\ Len(embLog) = embIdx
          /\ ~ENABLED EmbRequest
          /\ ~ENABLED EmbResponse
          /\ ~ENABLED EmbReturn

\* The second of three batches was rejected after the first had been answered.
C13_Witness ==
    /\ embPc = "failed"
    /\ embIdx = 2
    /\ Len(embBatches) = 3
    /\ embVectors[1] # Undefined

\* C14: at most one embedding request is in flight at any moment, a request
\* is only in flight while the call awaits it, the requests sent so far are
\* those of the first batches in order, and all but the one in flight have
\* been answered.
C14_Sequential ==
    /\ embInFlight <= 1
    /\ embInFlight = 1 <=> embPc = "await"
    /\ Len(embLog) <= Len(embBatches)
    /\ \A k \in 1..Len(embLog) : embLog[k] = embBatches[k].inputs
    /\ embPc \in {"loop", "await"} => Len(embLog) - embInFlight = embIdx - 1

\* The request of the second batch is in flight, the first was answered and a third is to come.
C14_Witness ==
    /\ embPc = "await"
    /\ embIdx = 2
    /\ Len(embBatches) = 3
    /\ embVectors[1] # Undefined
    /\ embInFlight = 1

(***************************************************************************)
(* Properties of the vector store manager                                  *)
(***************************************************************************)
HasUpsert(reqs) == \E k \in 1..Len(reqs) : reqs[k].kind = "upsert"

\* The caller's last two calls were upsertIfMissing with the same items, the
\* first returned, and before it none of the ids was in the collection.
TwiceSameItems(p) ==
    /\ vPc[p] = "done"
    /\ vOp[p] = "upsertIfMissing"
    /\ vPrev[p].op = "upsertIfMissing"
    /\ vPrev[p].items = vItems[p]
    /\ vPrev[p].out.status = "ok"
    /\ \A i \in IdsOf(vItems[p]) : vPrev[p].before.points[i] = NoPoint

\* C3: with no other writer, upsertIfMissing of N items whose ids were all
\* absent returns {inserted: N, skipped: 0}, and the immediately following
\* call with the same items returns {inserted: 0, skipped: N}, sends no
\* upsert request and leaves every stored point unchanged.
C3_Idempotent ==
    \A p \in vActive :
        TwiceSameItems(p) =>
            /\ vPrev[p].out = OkOut(Len(vItems[p]), 0)
            /\ vOut[p] = OkOut(0, Len(vItems[p]))
            /\ ~HasUpsert(vReqs[p])
            /\ colPoints = vSnap[p].points

\* Two items with different ids were inserted by the first call and the second call has returned.
C3_Witness ==
    \E p \in vActive :
        /\ TwiceSameItems(p)
        /\ Len(vItems[p]) = 2
        /\ Cardinality(IdsOf(vItems[p])) = 2
        /\ HasUpsert(vPrev[p].reqs)

\* C4: whenever ensureCollection(name, d) returns without error the
\* collection exists with dimension d.
C4_EnsuredDimension ==
    \A p \in vActive :
        (vOp[p] = "ensureCollection" /\ vPc[p] = "done" /\ vOut[p].status = "ok")
            => (colExists /\ colDim = vArg[p])

\* C15: when the existence check of ensureCollection(name, d) fails with
\* "not found", the call sends exactly one create request, for dimension d,
\* no delete request, and returns without error; when it fails with anything
\* else, the call fails and has sent nothing but the existence check.
C15_NotFoundCreates ==
    \A p \in vActive :
        (vOp[p] = "ensureCollection" /\ vErr[p] # NoError) =>
            IF vErr[p] \in NotFoundErrors
            THEN /\ vReqs[p] = <<Req("getCollection", 0), Req("createCollection", vArg[p])>>
                 /\ vPc[p] \in {"wait_create", "done"}
                 /\ vPc[p] = "done" => (vOut[p] = OkOut(0, 0) /\ colExists /\ colDim = vArg[p])
            ELSE /\ vPc[p] = "done"
                 /\ vOut[p] = ErrOut("store")
                 /\ vReqs[p] = <<Req("getCollection", 0)>>
                 /\ Snapshot = vSnap[p]

\* A call whose existence check reported "not found" by the message alone has
\* returned, and so has one whose check failed otherwise on an absent collection.
C15_Witness ==
    \E p \in vActive :
        /\ vOp[p] = "ensureCollection" /\ vPc[p] = "done"
        /\ vErr[p] = ClientError(0, "", "Not found: Collection docs doesn't exist!")
        /\ vOut[p].status = "ok"

\* C9: under every interleaving of upsertIfMissing calls, the upsert of an
\* upsertIfMissing call never changes a point that is present, and for each
\* id at most one call counts it as inserted.
C9_NeverOverwrites ==
    [][/\ \A p \in Procs :
            (vOp[p] = "upsertIfMissing" /\ vPc[p] = "wait_upsert" /\ vPc'[p] = "done")
                => \A i \in Ids : colPoints[i] # NoPoint => colPoints'[i] = colPoints[i]
       /\ \A i \in Ids :
            Cardinality({p \in Procs : /\ vPc'[p] = "done"
                                       /\ vOut'[p].status = "ok"
                                       /\ i \in IdsOf(vMissing'[p])}) <= 1]_vars

\* A direct upsertVectorsWithPayload call holds an item whose vector is not as long as the first.
MismatchedCall(p) ==
    /\ vOp[p] = "upsertVectorsWithPayload"
    /\ \E i \in 1..Len(vItems[p]) : Len(vItems[p][i].vector) # Len(vItems[p][1].vector)

\* C10: upsertVectorsWithPayload with an item whose vector length differs
\* from the first item's fails with a validation error, sends no request to
\* the store and writes no point.
C10_MismatchRejected ==
    \A p \in vActive :
        MismatchedCall(p) =>
            /\ vPc[p] = "done"
            /\ vOut[p] = ErrOut("validation")
            /\ vReqs[p] = <<>>
            /\ Snapshot = vSnap[p]

\* Such a call was made on a collection that would have accepted the first item.
C10_Witness ==
    \E p \in vActive :
        /\ MismatchedCall(p)
        /\ colExists
        /\ colDim = Len(vItems[p][1].vector)

\* An item with an empty id or with a component that is not a number.
InvalidItem(it) ==
    \/ it.id = ""
    \/ \E j \in 1..Len(it.vector) : notANumber(it.vector[j])

\* C11: a call of upsertEmbeddings, upsertVectorsWithPayload or
\* upsertIfMissing that holds an item with an empty id or a non-numeric or
\* NaN component ends with a validation error and has sent no request.
C11_InvalidItemRejected ==
    \A p \in vActive :
        (/\ vOp[p] \in {"upsertEmbeddings", "upsertVectorsWithPayload", "upsertIfMissing"}
         /\ \E i \in 1..Len(vItems[p]) : InvalidItem(vItems[p][i]))
        => /\ vPc[p] = "done"
           /\ vOut[p] = ErrOut("validation")
           /\ vReqs[p] = <<>>

(***************************************************************************)
(* Properties of the graph store manager                                   *)
(***************************************************************************)
HasId(n) == "id" \in DOMAIN n.props
IdOf(n) == n.props["id"]

\* C5: after any sequence of upsertEntity calls the graph holds at most one
\* node per id.
C5_OneNodePerId ==
    \A i, j \in 1..Len(gNodes) :
        (i # j /\ HasId(gNodes[i]) /\ HasId(gNodes[j])) => IdOf(gNodes[i]) # IdOf(gNodes[j])

\* C17: every node that upsertEntity created carries the label Entity,
\* whatever label list the caller passed.
C17_CreatedNodesAreEntities ==
    \A i \in 1..Len(gNodes) : "Entity" \in gNodes[i].labels

\* C6: when upsertEntity is applied to an id whose node already has a name,
\* the node keeps that name and every key of the passed property map has the
\* passed value on it afterwards.
C6_NameFirstPropsLast ==
    (gLast.op = "upsertEntity" /\ gLast.status = "ok") =>
        \A i \in 1..Len(gSnap.nodes) :
            (/\ HasId(gSnap.nodes[i]) /\ IdOf(gSnap.nodes[i]) = gLast.id
             /\ "name" \in DOMAIN gSnap.nodes[i].props)
            => /\ "name" \in DOMAIN gNodes[i].props
               /\ gNodes[i].props["name"] = gSnap.nodes[i].props["name"]
               /\ \A k \in DOMAIN gLast.props :
                     /\ k \in DOMAIN gNodes[i].props
                     /\ gNodes[i].props[k] = gLast.props[k]

\* The (source id, target id, type) triple of an edge.
TripleOf(nodes, e) ==
    <<nodes[e.src].props["id"], nodes[e.dst].props["id"], e.props["type"]>>

\* C7: after any sequence of upsertRelationship calls between existing
\* entities there is at most one edge per (source, target, type) triple, and
\* after a call every key of its property map has the passed value on the
\* edge of its triple.
C7_OneEdgePerTriple ==
    /\ \A k, l \in 1..Len(gEdges) :
          k # l => TripleOf(gNodes, gEdges[k]) # TripleOf(gNodes, gEdges[l])
    /\ gLast.op = "upsertRelationship" =>
          \A k \in 1..Len(gEdges) :
              TripleOf(gNodes, gEdges[k]) = <<gLast.source, gLast.target, gLast.type>>
              => \A key \in DOMAIN gLast.props :
                    /\ key \in DOMAIN gEdges[k].props
                    /\ gEdges[k].props[key] = gLast.props[key]

InTransaction == gPc \in {"tx_nodes", "tx_rels", "tx_commit"}

BulkEnded(status) == gLast.op = "ingestBulkTransactional" /\ gLast.status = status

\* A node of the batch is in the graph: its id under the labels of its row.
NodeCommitted(row) ==
    \E i \in 1..Len(gNodes) :
        /\ HasId(gNodes[i]) /\ IdOf(gNodes[i]) = row.id
        /\ patternLabels(row.labels) \subseteq gNodes[i].labels

\* A relationship of the batch is in the graph: an edge of its triple with its properties.
RelCommitted(row) ==
    \E k \in 1..Len(gEdges) :
        /\ TripleOf(gNodes, gEdges[k]) = <<row.sourceId, row.targetId, row.type>>
        /\ \A key \in DOMAIN row.props :
              key \in DOMAIN gEdges[k].props /\ gEdges[k].props[key] = row.props[key]

\* Both endpoints of a relationship row are Entity nodes of the graph.
EndpointsExist(row) ==
    /\ matchNodes(gNodes, {"Entity"}, row.sourceId) # {}
    /\ matchNodes(gNodes, {"Entity"}, row.targetId) # {}

\* Nothing of a running transaction is visible, and a failed call leaves the graph as it was.
NothingOnFailure ==
    /\ InTransaction => GraphNow = gSnap
    /\ BulkEnded("error") => GraphNow = gSnap

EntityExisted(id) ==
    \E i \in 1..Len(gSnap.nodes) :
        /\ "Entity" \in gSnap.nodes[i].labels
        /\ "id" \in DOMAIN gSnap.nodes[i].props
        /\ gSnap.nodes[i].props["id"] = id

\* C29: upsertRelationship never creates a node, and when the source or the
\* target entity does not exist the call completes without error and leaves
\* nodes, edges and their properties as they were.
C29_RelationshipFrame ==
    gLast.op = "upsertRelationship" =>
        /\ gNodes = gSnap.nodes
        /\ (~EntityExisted(gLast.source) \/ ~EntityExisted(gLast.target)) =>
              (gLast.status = "ok" /\ GraphNow = gSnap)

\* A relationship was asked for from an id that names a node which is not an
\* Entity, to an Entity that exists, in a graph that already has an edge.
C29_Witness ==
    /\ gLast.op = "upsertRelationship" /\ gLast.status = "ok"
    /\ ~EntityExisted(gLast.source) /\ EntityExisted(gLast.target)
    /\ \E i \in 1..Len(gNodes) : gNodes[i].props["id"] = gLast.source
    /\ Len(gEdges) = 1

RECURSIVE upsertEntities(_, _)
\* upsertEntity(id, name, labels, props) for each row, in order.
upsertEntities(nodes, rows) ==
    IF rows = <<>> THEN nodes
    ELSE upsertEntities(mergeEntity(nodes, rows[1].id, rows[1].name, rows[1].labels,
                                    rows[1].props),
                        Tail(rows))

RECURSIVE upsertRelationships(_, _, _)
\* upsertRelationship(sourceId, targetId, type, props) for each row, in order.
upsertRelationships(nodes, edges, rows) ==
    IF rows = <<>> THEN edges
    ELSE upsertRelationships(nodes,
                             mergeRelationship(nodes, edges, rows[1].sourceId,
                                               rows[1].targetId, rows[1].type, rows[1].props),
                             Tail(rows))

\* C30: a successful ingestBulkTransactional(nodes, relationships) leaves the
\* graph as upsertEntity for each node in order, then upsertRelationship for
\* each relationship in order, would have left it from the same start: the
\* same nodes with the same names, labels and properties, the same edges.
C30_BulkAsUpserts ==
    BulkEnded("ok") =>
        LET nodes == upsertEntities(gSnap.nodes, gLast.nodes)
        IN /\ gNodes = nodes
           /\ gEdges = upsertRelationships(nodes, gSnap.edges, gLast.rels)

\* C16: in every query text built, no caller-supplied value stands in the
\* text (values are referred to as bound parameters), and every label name
\* in the text matches ^[A-Za-z_][A-Za-z0-9_]*$.
C16_QueriesParameterised ==
    (fnPc = "done" /\ fnName \in QueryMethods) =>
        \A k \in 1..Len(fnOut) :
            /\ fnOut[k].kind # "value"
            /\ (fnOut[k].kind = "label" => isSafeIdentifier(LabelChars(fnOut[k].text)))

\* Node j is joined to node i by some relationship, in either direction.
Neighbours(i) == {h[2] : h \in incident(gEdges, i)}

\* C19: the list fetchRelatedGraph returns has no two equal triples, holds
\* the triple of every relationship of every seed, holds the second-hop
\* triple of every two-hop path from a seed, and holds nothing else.
C19_SubgraphDeduplicated ==
    (gLast.op = "fetchRelatedGraph" /\ gLast.status = "ok") =>
        LET sub == gLast.subgraph
            S == seedNodes(gNodes, gLast.ids)
            has(t) == \E k \in 1..Len(sub) : sub[k] = t
        IN /\ \A a, b \in 1..Len(sub) : a # b => sub[a] # sub[b]
           /\ \A e \in S : \A h \in incident(gEdges, e) :
                  has(SubgraphTriple(gNodes, gEdges, e, h[1], h[2]))
           /\ \A e \in S : \A h1 \in incident(gEdges, e) : \A h2 \in incident(gEdges, h1[2]) :
                  h2[1] # h1[1] => has(SubgraphTriple(gNodes, gEdges, h1[2], h2[1], h2[2]))
           /\ \A k \in 1..Len(sub) :
                  \E i \in S \cup UNION {Neighbours(e) : e \in S} : \E h \in incident(gEdges, i) :
                      sub[k] = SubgraphTriple(gNodes, gEdges, i, h[1], h[2])

NamesOf(graph) ==
    {graph[k].node : k \in 1..Len(graph)}
    \cup {graph[k].target_node : k \in {x \in 1..Len(graph) : graph[x].target_node # ""}}

\* The triples that have a target and a relationship type, in order.
LinkedTriples(graph) ==
    SelectSeq(graph, LAMBDA t : t.target_node # "" /\ t.relationship # "")

\* C20: extractGraphComponents gives every node name of the triples one id
\* of its own (distinct names, distinct ids) and returns, in triple order,
\* one relationship {source id, target id, type} for every triple with a
\* non-empty target and a non-empty type, and none for any other triple.
C20_ExtractNormalised ==
    (fnPc = "done" /\ fnName = "extractGraphComponents") =>
        LET nodes == fnOut.nodes
            linked == LinkedTriples(fnIn)
        IN /\ DOMAIN nodes = NamesOf(fnIn)
           /\ \A a, b \in DOMAIN nodes : a # b => nodes[a] # nodes[b]
           /\ \A a \in DOMAIN nodes : nodes[a] > 0
           /\ fnOut.relationships =
                  [k \in 1..Len(linked) |->
                      [source |-> nodes[linked[k].node],
                       target |-> nodes[linked[k].target_node],
                       type |-> linked[k].relationship]]

\* The answer is one the claim names: no content, not JSON, no graph key,
\* or a triple with a field that is not a string.
BadAnswer(message) ==
    \/ ~message.hasContent
    \/ ~message.content.wellFormed
    \/ message.content.value.graph.t = "undefined"
    \/ \E k \in 1..Len(message.content.value.graph.items) :
          \E f \in {"node", "target_node", "relationship"} :
              message.content.value.graph.items[k][f].t # "string"

\* C21: a call of extractGraphComponents sends one completion request and
\* no more; when the answer has no content, is not JSON, lacks graph or
\* holds a triple with a non-string field, the call fails and returns
\* neither nodes nor relationships.
C21_BadAnswerRejected ==
    fnName = "extractGraphComponents" /\ fnPc \in {"await", "done", "failed"} =>
        /\ fnReqs = <<"chat.completions.create">>
        /\ (fnIn # <<>> /\ BadAnswer(fnIn[1])) => (fnPc = "failed" /\ fnOut = Undefined)

\* An answer with a valid triple followed by one with a numeric
\* relationship has been rejected.
C21_Witness ==
    /\ fnName = "extractGraphComponents" /\ fnPc = "failed"
    /\ fnIn # <<>> /\ fnIn[1].hasContent /\ fnIn[1].content.wellFormed
    /\ fnIn[1].content.value.graph.t = "array"
    /\ Len(fnIn[1].content.value.graph.items) = 2
    /\ tripleSchema(fnIn[1].content.value.graph.items[1])
    /\ fnIn[1].content.value.graph.items[2].relationship.t = "number"

\* The payload of a stored point has an id that is a non-empty string.
HasUsableId(point) ==
    point.payload # NoPayload /\ "id" \in DOMAIN point.payload /\ point.payload.id # ""

\* C22: a retrieverSearch that returned gives as ids the payload ids of
\* the hits, in hit order, without the hits that have no usable payload id
\* (at most topK ids); it called fetchRelatedGraph once, with exactly this
\* list, and its subgraph is what the graph holds for this list.
C22_IdsOfHits ==
    (fnName = "retrieverSearch" /\ fnPc = "done") =>
        LET usable == SelectSeq(fnIn.hits, LAMBDA h : HasUsableId(colPoints[h]))
            fetches == SelectSeq(fnReqs, LAMBDA r : r.op = "fetchRelatedGraph")
        IN /\ fnOut.ids = [k \in 1..Len(usable) |-> colPoints[usable[k]].payload.id]
           /\ Len(fnOut.ids) <= fnIn.topK
           /\ Len(fetches) = 1 /\ fetches[1].arg = fnOut.ids
           /\ fnOut.subgraph = fetchRelatedGraph(gNodes, gEdges, fnOut.ids)

\* Two hits, the first without a usable payload id: one id, and a
\* subgraph that is not empty.
C22_Witness ==
    /\ fnName = "retrieverSearch" /\ fnPc = "done"
    /\ Len(fnIn.hits) = 2 /\ ~HasUsableId(colPoints[fnIn.hits[1]])
    /\ Len(fnOut.ids) = 1 /\ Len(fnOut.subgraph) > 0

\* C23: a retrieverSearch with the description of the fragment that the
\* ingestFragment just before it ingested returns the fragment's id among
\* its ids, for every topK >= 1.
C23_RoundTrip ==
    (/\ fnName = "retrieverSearch" /\ fnPc = "done"
     /\ fnPrev.name = "ingestFragment" /\ fnPrev.ok
     /\ fnPrev.args.items[1].description = fnIn.query)
    => \E k \in 1..Len(fnOut.ids) : fnOut.ids[k] = fnPrev.args.items[1].id

\* C26: when ingestFragment or ingestFragments has returned without
\* error, for every fragment the collection holds a point under the
\* fragment's id whose payload id is that id, and the graph holds an
\* entity with that id.
C26_StoresConsistent ==
    (IsFragmentCall /\ fnPc = "done") =>
        \A k \in 1..Len(fnIn.items) :
            LET id == fnIn.items[k].id
            IN /\ colPoints[id] # NoPoint
               /\ HasUsableId(colPoints[id]) /\ colPoints[id].payload.id = id
               /\ \E i \in 1..Len(gNodes) :
                     /\ "Entity" \in gNodes[i].labels
                     /\ HasId(gNodes[i]) /\ IdOf(gNodes[i]) = id

\* The triples that have an entity, a related node and a relationship.
CompleteTriples(subgraph) ==
    SelectSeq(subgraph, LAMBDA t : t.entity # NoPart /\ t.related_node # NoPart
                                    /\ t.relationship # NoPart)

\* The names in the order the complete triples mention them.
Mentions(complete) ==
    [p \in 1..(2 * Len(complete)) |->
        IF p % 2 = 1 THEN complete[(p + 1) \div 2].entity.name
        ELSE complete[p \div 2].related_node.name]

FirstMention(m, name) == CHOOSE p \in 1..Len(m) : m[p] = name /\ \A x \in 1..(p - 1) : m[x] # name

\* C24: formatGraphContext returns as nodes the names of the complete
\* triples, each once, in the order of their first mention, and as edges
\* one string "<entity.name> <relationship.type> <related.name>" per
\* complete triple in input order; an incomplete triple adds nothing; the
\* triple (A, LIKES, B) alone gives nodes [A, B] and edges ["A LIKES B"].
C24_ContextFormatted ==
    (fnName = "formatGraphContext" /\ fnPc = "done") =>
        LET complete == CompleteTriples(fnIn)
            m == Mentions(complete)
            nodes == fnOut.nodes
        IN /\ {nodes[k] : k \in 1..Len(nodes)} = {m[p] : p \in 1..Len(m)}
           /\ \A j, k \in 1..Len(nodes) :
                  j < k => (nodes[j] # nodes[k]
                            /\ FirstMention(m, nodes[j]) < FirstMention(m, nodes[k]))
           /\ Len(fnOut.edges) = Len(complete)
           /\ \A k \in 1..Len(complete) :
                  fnOut.edges[k] = complete[k].entity.name \o <<" ">>
                                   \o complete[k].relationship.type \o <<" ">>
                                   \o complete[k].related_node.name
           /\ fnIn = <<[entity |-> [name |-> <<"A">>], related_node |-> [name |-> <<"B">>],
                        relationship |-> [type |-> <<"L", "I", "K", "E", "S">>]]>>
              => (/\ nodes = << <<"A">>, <<"B">> >>
                  /\ fnOut.edges = << <<"A", " ", "L", "I", "K", "E", "S", " ", "B">> >>)

\* Two complete triples that share a name, and nodes that hold it once.
C24_Witness ==
    /\ fnName = "formatGraphContext" /\ fnPc = "done"
    /\ Len(fnIn) = 2 /\ Len(CompleteTriples(fnIn)) = 2
    /\ fnIn[1].entity.name = <<"A">> /\ fnIn[1].related_node.name = <<"B">>
    /\ fnIn[2].entity.name = <<"B">> /\ fnIn[2].related_node.name = <<"A">>
    /\ fnOut.nodes = << <<"A">>, <<"B">> >>

\* C25: getPrompt(kind) returns the prompt of the latest setPrompt(kind, _)
\* that no deletePrompt(kind) followed, and undefined when there is none;
\* listPrompts returns exactly the kinds set, each once with its current
\* prompt; deletePrompt(kind) returns true exactly when the kind was set;
\* an operation on one kind leaves every other kind as it was; graphRAGRun
\* heads its prompt with the prompt registered under "rag" when it is
\* called, and with the built-in default when there is none.
C25_PromptRegistry ==
    LET before == [kind \in PromptKinds |-> mapGet(regOp.before, kind)]
        after == [kind \in PromptKinds |-> mapGet(promptRegistry, kind)]
    IN /\ after = regLatest
       /\ regOp.name = "getPrompt" => regOp.value = regLatest[regOp.kind]
       /\ regOp.name = "listPrompts" =>
             /\ {regOp.list[k].kind : k \in 1..Len(regOp.list)}
                   = {kind \in PromptKinds : regLatest[kind] # JAbsent}
             /\ \A j, k \in 1..Len(regOp.list) :
                   /\ regOp.list[j].kind = regOp.list[k].kind => j = k
                   /\ JString(regOp.list[k].prompt) = regLatest[regOp.list[k].kind]
       /\ regOp.name = "deletePrompt" =>
             (regOp.deleted <=> before[regOp.kind] # JAbsent)
       /\ regOp.name # "none" =>
             \A kind \in PromptKinds \ {regOp.kind} : after[kind] = before[kind]
       /\ (fnName = "graphRAGRun" /\ fnPc # "idle") =>
             /\ Len(fnReqs) = 1
             /\ fnReqs[1].header = IF ragSeen = JAbsent THEN DefaultPrompt ELSE ragSeen.v

\* graphRAGRun was called after "rag" was set twice and "extract" deleted,
\* and heads its prompt with the second prompt.
C25_Witness ==
    /\ fnName = "graphRAGRun" /\ fnPc = "done"
    /\ regOp.name = "deletePrompt" /\ regOp.kind = "extract" /\ regOp.deleted
    /\ Len(regOp.before) = 2 /\ regOp.before[1] = [kind |-> "rag", prompt |-> "p2"]
    /\ fnReqs[1].header = "p2"

(***************************************************************************)
(* Properties of the application layer                                     *)
(***************************************************************************)
\* C12: an ingest call whose request violates the ingest-request schema
\* fails with a validation error and makes no sub-call: no embedding request,
\* no vector-store request and no graph query is sent.
C12_ValidatedBeforeSideEffects ==
    (iPc # "idle" /\ ~IngestRequestSchema(iReq))
        => (iPc = "failed" /\ iOut = "validation" /\ iLog = <<>>)

====
